---- MODULE Spec2Model ----
(***************************************************************************)
(* Quad remeshing engine of src/Mesh/meshQuadQuasiStructured.cpp:          *)
(* the half-edge structure (MeshHalfEdges, createMeshHalfEdges), cavities  *)
(* (FCavity), the cavity growth controller (Gardener) and the local defect *)
(* repair loop (remeshSmallDefects).                                       *)
(*                                                                         *)
(* C++ vectors are sequences read with the 0-based accessor At, so that    *)
(* indices and the arithmetic on them are those of the source.             *)
(***************************************************************************)
EXTENDS Integers, Sequences, FiniteSets, TLC

\* std::numeric_limits<size_t>::max(), here the largest integer of the checker
NO_ID == 2147483647

\* std::numeric_limits<double>::max(), above every finite priority
DBL_MAX == 1000000000

At(s, i) == s[i + 1]
Idx(s) == 0 .. (Len(s) - 1)
SetAt(s, i, x) == [s EXCEPT ![i + 1] = x]
Range(s) == {s[k] : k \in 1 .. Len(s)}

\* position of the first occurrence of x in s, Len(s) when absent (std::find)
Find(s, x) ==
  IF \E k \in Idx(s) : At(s, k) = x
  THEN CHOOSE k \in Idx(s) : At(s, k) = x /\ \A j \in 0 .. (k - 1) : At(s, j) # x
  ELSE Len(s)

\* vector::erase(begin() + k)
EraseAt(s, k) == SubSeq(s, 1, k) \o SubSeq(s, k + 2, Len(s))

\* the elements of s in order, each kept at its first occurrence only
FirstOccurrences(s) ==
  LET keep == {k \in 1 .. Len(s) : \A j \in 1 .. (k - 1) : s[j] # s[k]}
  IN [n \in 1 .. Cardinality(keep) |->
        s[CHOOSE k \in keep : Cardinality({j \in keep : j < k}) = n - 1]]

(***************************************************************************)
(* Half-edge data structure                                                *)
(***************************************************************************)

EmptyMesh == [vertices |-> <<>>, hedges |-> <<>>, faces |-> <<>>]

next(M, he) == At(M.hedges, he).next
opposite(M, he) == At(M.hedges, he).opposite
prev(M, he) == At(M.hedges, he).prev
\* MeshHalfEdges::vertex(he, lv): lv = 0 the origin, otherwise the tip
vertex(M, he, lv) ==
  IF lv = 0 THEN At(M.hedges, prev(M, he)).vertex ELSE At(M.hedges, he).vertex

\* the vertices of face f, from the tip of faces[f].he, following next
RECURSIVE FaceWalk(_, _, _, _)
FaceWalk(M, f, he, acc) ==
  LET acc2 == Append(acc, At(M.hedges, he).vertex)
      nx == next(M, he)
  IN IF nx = At(M.faces, f).he THEN acc2 ELSE FaceWalk(M, f, nx, acc2)

face_vertices(M, f) == FaceWalk(M, f, At(M.faces, f).he, <<>>)

\* the half-edges of face f in the same order
RECURSIVE FaceHesWalk(_, _, _, _)
FaceHesWalk(M, f, he, acc) ==
  LET acc2 == Append(acc, he)
      nx == next(M, he)
  IN IF nx = At(M.faces, f).he THEN acc2 ELSE FaceHesWalk(M, f, nx, acc2)

face_hes(M, f) == FaceHesWalk(M, f, At(M.faces, f).he, <<>>)

(* createMeshHalfEdges, first loop: the vertices in the order in which the  *)
(* quads first mention them (mv2new), four half-edges and one face per quad *)
FlatVertices(quadrangles) ==
  [k \in 1 .. (4 * Len(quadrangles)) |->
     quadrangles[((k - 1) \div 4) + 1][((k - 1) % 4) + 1]]

mv2newOrder(quadrangles) == FirstOccurrences(FlatVertices(quadrangles))

mv2new(order, mv) == Find(order, mv)

HalfEdgesOfQuads(quadrangles, order) ==
  [h \in 1 .. (4 * Len(quadrangles)) |->
     LET faceNo == (h - 1) \div 4
         k == (h - 1) % 4
         he0 == 4 * faceNo
         quad == quadrangles[faceNo + 1]
     IN [face |-> faceNo,
         opposite |-> NO_ID,
         vertex |-> mv2new(order, quad[((1 + k) % 4) + 1]),
         next |-> IF k # 3 THEN he0 + k + 1 ELSE he0,
         prev |-> IF k # 0 THEN he0 + k - 1 ELSE he0 + 3]]

\* vertices[nv].he: the first half-edge created whose tip is nv
VerticesOfQuads(order, hedges) ==
  [n \in 1 .. Len(order) |->
     [he |-> IF \E h \in Idx(hedges) : At(hedges, h).vertex = n - 1
             THEN CHOOSE h \in Idx(hedges) :
                    /\ At(hedges, h).vertex = n - 1
                    /\ \A g \in 0 .. (h - 1) : At(hedges, g).vertex # n - 1
             ELSE NO_ID,
      ptr |-> order[n],
      isSingularity |-> FALSE]]

FacesOfQuads(quadrangles) ==
  [f \in 1 .. Len(quadrangles) |-> [he |-> 4 * (f - 1), ptr |-> f - 1]]

(* createMeshHalfEdges, connectivity: the sorted vertex pair of each        *)
(* half-edge, sort_unique_with_perm, then the first two users of each pair  *)
vPairOf(hedges, i) ==
  LET v1 == At(hedges, At(hedges, i).prev).vertex
      v2 == At(hedges, i).vertex
  IN IF v1 > v2 THEN <<v2, v1>> ELSE <<v1, v2>>

PairLess(p, q) == p[1] < q[1] \/ (p[1] = q[1] /\ p[2] < q[2])

\* sort_unique_with_perm: old2new[i] is the rank of pair i among the uniques
old2newOf(vPairs) ==
  LET uniq == Range(vPairs)
  IN [i \in 1 .. Len(vPairs) |->
        Cardinality({p \in uniq : PairLess(p, vPairs[i])})]

NbUniques(vPairs) == Cardinality(Range(vPairs))

\* the redirection loop without its non-manifold branch: a third user is skipped
RECURSIVE RedirectNoCheck(_, _, _)
RedirectNoCheck(old2new, new2old, i) ==
  IF i = Len(old2new) THEN [ok |-> TRUE, new2old |-> new2old]
  ELSE LET ni == At(old2new, i)
       IN IF ni >= Len(new2old) THEN [ok |-> FALSE, new2old |-> new2old]
          ELSE IF At(new2old, ni)[1] = NO_ID
               THEN RedirectNoCheck(old2new, SetAt(new2old, ni, <<i, NO_ID>>), i + 1)
          ELSE IF At(new2old, ni)[2] = NO_ID
               THEN RedirectNoCheck(old2new,
                             SetAt(new2old, ni, <<At(new2old, ni)[1], i>>), i + 1)
          ELSE RedirectNoCheck(old2new, new2old, i + 1)

\* the redirection loop: new2old, or failure at the third user of a pair
RECURSIVE Redirect(_, _, _)
Redirect(old2new, new2old, i) ==
  IF i = Len(old2new) THEN [ok |-> TRUE, new2old |-> new2old]
  ELSE LET ni == At(old2new, i)
       IN IF ni >= Len(new2old) THEN [ok |-> FALSE, new2old |-> new2old]
          ELSE IF At(new2old, ni)[1] = NO_ID
               THEN Redirect(old2new, SetAt(new2old, ni, <<i, NO_ID>>), i + 1)
          ELSE IF At(new2old, ni)[2] = NO_ID
               THEN Redirect(old2new,
                             SetAt(new2old, ni, <<At(new2old, ni)[1], i>>), i + 1)
          ELSE [ok |-> FALSE, new2old |-> new2old]

\* only the first of the two assignments
LinkOneWay(hedges, h1, h2) ==
  SetAt(hedges, h1, [At(hedges, h1) EXCEPT !.opposite = h2])

\* M.hedges[h1].opposite = h2; M.hedges[h2].opposite = h1;
LinkOpposites(hedges, h1, h2) ==
  LET a == SetAt(hedges, h1, [At(hedges, h1) EXCEPT !.opposite = h2])
  IN SetAt(a, h2, [At(a, h2) EXCEPT !.opposite = h1])

RECURSIVE LinkAll(_, _, _)
LinkAll(hedges, new2old, i) ==
  IF i = Len(new2old) THEN hedges
  ELSE LET h1 == At(new2old, i)[1]
           h2 == At(new2old, i)[2]
       IN IF h1 # NO_ID /\ h2 # NO_ID
          THEN LinkAll(LinkOpposites(hedges, h1, h2), new2old, i + 1)
          ELSE LinkAll(hedges, new2old, i + 1)

\* the flags of the singular vertices that are vertices of the quads
FlagSingular(vertices, singularVertices) ==
  [n \in 1 .. Len(vertices) |->
     [vertices[n] EXCEPT !.isSingularity = (vertices[n].ptr \in singularVertices)]]

createMeshHalfEdges(quadrangles, singularVertices) ==
  LET order == mv2newOrder(quadrangles)
      hedges0 == HalfEdgesOfQuads(quadrangles, order)
      vertices0 == VerticesOfQuads(order, hedges0)
      faces0 == FacesOfQuads(quadrangles)
      vPairs == [i \in 1 .. Len(hedges0) |-> vPairOf(hedges0, i - 1)]
      old2new == old2newOf(vPairs)
      red == Redirect(old2new,
                      [u \in 1 .. NbUniques(vPairs) |-> <<NO_ID, NO_ID>>], 0)
  IN IF ~red.ok
     THEN [ret |-> -1,
           M |-> [vertices |-> vertices0, hedges |-> hedges0, faces |-> faces0]]
     ELSE [ret |-> 0,
           M |-> [vertices |-> FlagSingular(vertices0, singularVertices),
                  hedges |-> LinkAll(hedges0, red.new2old, 0),
                  faces |-> faces0]]

(* MeshHalfEdges::vertexFaceValence: the first loop turns around v with     *)
(* opposite(next(he)); at a half-edge without opposite it restarts from     *)
(* he_bdr = next(he) and steps with opposite(next(he)) again.               *)
RECURSIVE ValenceTurn(_, _, _, _)
ValenceTurn(M, v, he, valence) ==
  LET cand == opposite(M, next(M, he))
  IN IF cand = NO_ID THEN [he_bdr |-> next(M, he), valence |-> valence]
     ELSE IF cand = At(M.vertices, v).he
          THEN [he_bdr |-> NO_ID, valence |-> valence + 1]
          ELSE ValenceTurn(M, v, cand, valence + 1)

RECURSIVE ValenceUnroll(_, _, _, _)
ValenceUnroll(M, v, he, valence) ==
  LET he2 == opposite(M, next(M, he))
  IN IF he2 # At(M.vertices, v).he /\ he2 # NO_ID
     THEN ValenceUnroll(M, v, he2, valence + 1)
     ELSE valence + 1

vertexFaceValence(M, v) ==
  IF At(M.vertices, v).he = NO_ID THEN [valence |-> 0, onBoundary |-> FALSE]
  ELSE LET t == ValenceTurn(M, v, At(M.vertices, v).he, 0)
       IN IF t.he_bdr = NO_ID THEN [valence |-> t.valence, onBoundary |-> FALSE]
          ELSE [valence |-> ValenceUnroll(M, v, t.he_bdr, 0), onBoundary |-> TRUE]

(* MeshHalfEdges::vertexFaces: the same first loop, collecting faces; the   *)
(* boundary case unrolls from he_bdr with opposite(prev(he)).               *)
RECURSIVE FacesTurn(_, _, _, _)
FacesTurn(M, v, he, faces) ==
  LET cand == opposite(M, next(M, he))
  IN IF cand = NO_ID THEN [he_bdr |-> next(M, he), faces |-> faces]
     ELSE LET faces2 == Append(faces, At(M.hedges, cand).face)
          IN IF cand = At(M.vertices, v).he
             THEN [he_bdr |-> NO_ID, faces |-> faces2]
             ELSE FacesTurn(M, v, cand, faces2)

RECURSIVE FacesUnroll(_, _, _, _)
FacesUnroll(M, v, he, faces) ==
  LET faces2 == Append(faces, At(M.hedges, he).face)
      he2 == opposite(M, prev(M, he))
  IN IF he2 # At(M.vertices, v).he /\ he2 # NO_ID
     THEN FacesUnroll(M, v, he2, faces2)
     ELSE faces2

vertexFaces(M, v) ==
  LET t == FacesTurn(M, v, At(M.vertices, v).he, <<>>)
  IN IF t.he_bdr = NO_ID THEN t.faces ELSE FacesUnroll(M, v, t.he_bdr, <<>>)

(***************************************************************************)
(* Cavities (FCavity): a set of quads and its ordered boundary half-edges  *)
(***************************************************************************)

EmptyCavity == [hes |-> <<>>, side |-> <<>>, quads |-> {}]

MinOf(S) == CHOOSE x \in S : \A y \in S : x <= y

\* removeInteriorHalfEdges: erase(it_op) then erase(it_he), by position
RECURSIVE RemoveInteriorLoop(_, _, _)
RemoveInteriorLoop(M, hes, it_he) ==
  IF it_he >= Len(hes) THEN hes
  ELSE LET he_op == opposite(M, At(hes, it_he))
           it_op == Find(hes, he_op)
       IN IF it_op # Len(hes)
          THEN RemoveInteriorLoop(M, EraseAt(EraseAt(hes, it_op), it_he), it_he)
          ELSE RemoveInteriorLoop(M, hes, it_he + 1)

removeInteriorHalfEdges(M, hes) == RemoveInteriorLoop(M, hes, 0)

(* orderedHalfEdgesFromStack: only the loop through hes_stack[0] is followed *)
(* (the outer for breaks after its first turn); the successor of he is the   *)
(* first entry of the stack, other than he, that starts where he ends.  The  *)
(* do-while never ends when the walk comes back to an entry other than he0:  *)
(* diverges.                                                                 *)
RECURSIVE OrderedWalk(_, _, _, _)
OrderedWalk(M, hes_stack, he, orderedHes) ==
  LET v2 == vertex(M, he, 1)
      pushed == Append(orderedHes, he)
      cands == {k \in Idx(hes_stack) :
                  At(hes_stack, k) # he /\ vertex(M, At(hes_stack, k), 0) = v2}
  IN IF cands = {}
     THEN [ret |-> FALSE, diverges |-> FALSE, hes |-> pushed]
     ELSE LET he2 == At(hes_stack, MinOf(cands))
          IN IF he2 = At(hes_stack, 0)
             THEN [ret |-> TRUE, diverges |-> FALSE, hes |-> pushed]
             ELSE IF he2 \in Range(pushed)
                  THEN [ret |-> FALSE, diverges |-> TRUE, hes |-> pushed]
                  ELSE OrderedWalk(M, hes_stack, he2, pushed)

orderedHalfEdgesFromStack(M, hes_stack) ==
  IF Len(hes_stack) < 3
  THEN [ret |-> FALSE, diverges |-> FALSE, hes |-> <<>>]
  ELSE OrderedWalk(M, hes_stack, At(hes_stack, 0), <<>>)

\* the faces of vertexFaces(v) that are in quads, and those that are not
valenceInsideQuads(M, quads, v) ==
  LET faces == vertexFaces(M, v)
  IN Cardinality({k \in 1 .. Len(faces) : faces[k] \in quads})

valenceOutsideQuads(M, quads, v) ==
  LET faces == vertexFaces(M, v)
  IN Cardinality({k \in 1 .. Len(faces) : faces[k] \notin quads})

(* FCavity::updateSides: corners are the vertices met once by the quads of  *)
(* the cavity; the numbering starts at the first entry of hes that leaves a *)
(* corner and goes up by one at each corner; side is a vector of uint8_t.   *)
CornersOf(M, quads) ==
  {v \in Idx(M.vertices) :
     Cardinality({he \in Idx(M.hedges) :
                    At(M.hedges, he).face \in quads /\ At(M.hedges, he).vertex = v}) = 1}

updateSides(M, cav) ==
  LET n == Len(cav.hes)
      resized == [k \in 1 .. n |-> IF k <= Len(cav.side) THEN cav.side[k] ELSE 0]
      corners == CornersOf(M, cav.quads)
      starts == {i \in Idx(cav.hes) : vertex(M, At(cav.hes, i), 0) \in corners}
  IN IF starts = {}
     THEN [nsides |-> 0, side |-> resized]
     ELSE LET i == MinOf(starts)
              sideNoAt(j) ==
                Cardinality({l \in 0 .. j :
                               vertex(M, At(cav.hes, (i + l) % n), 0) \in corners}) - 1
          IN [nsides |-> sideNoAt(n - 1) + 1,
              side |-> [k \in 1 .. n |-> sideNoAt(((k - 1) - i + n) % n) % 256]]

\* the half-edges of the faces of quadsInit, face after face (hes_stack)
HesOfFaces(M, quadsInit) ==
  [k \in 1 .. (4 * Len(quadsInit)) |->
     face_hes(M, quadsInit[((k - 1) \div 4) + 1])[((k - 1) % 4) + 1]]

\* FCavity::init
init(M, cav, quadsInit) ==
  IF Len(quadsInit) < 1
  THEN [ret |-> FALSE, diverges |-> FALSE, cav |-> cav]
  ELSE LET quads2 == cav.quads \cup Range(quadsInit)
           hes_stack == removeInteriorHalfEdges(M, HesOfFaces(M, quadsInit))
           oks == orderedHalfEdgesFromStack(M, hes_stack)
           cav2 == [hes |-> oks.hes, side |-> cav.side, quads |-> quads2]
       IN IF ~oks.ret
          THEN [ret |-> FALSE, diverges |-> oks.diverges, cav |-> cav2]
          ELSE LET sides == updateSides(M, cav2)
               IN [ret |-> sides.nsides > 0, diverges |-> FALSE,
                   cav |-> [cav2 EXCEPT !.side = sides.side]]

(* FCavity::growByFlip.  FlipContext is the part before the case analysis:  *)
(* he0 is the opposite of hes[i], nq its face, he1..he3 the other sides of  *)
(* nq, q1in..q3in whether the quads across them are in the cavity.          *)
FlipContext(M, cav, i) ==
  LET he0_op == At(cav.hes, i)
      he0 == opposite(M, he0_op)
      he1 == next(M, he0)
      he2 == next(M, he1)
      he3 == next(M, he2)
      he1_op == opposite(M, he1)
      he2_op == opposite(M, he2)
      he3_op == opposite(M, he3)
      qin(h) == IF h # NO_ID THEN At(M.hedges, h).face \in cav.quads ELSE FALSE
  IN [he0_op |-> he0_op, he0 |-> he0, he1 |-> he1, he2 |-> he2, he3 |-> he3,
      he1_op |-> he1_op, he2_op |-> he2_op, he3_op |-> he3_op,
      nq |-> At(M.hedges, he0).face,
      q1in |-> qin(he1_op), q2in |-> qin(he2_op), q3in |-> qin(he3_op)]

IsSing(M, v) == At(M.vertices, v).isSingularity

\* hes.erase(std::find(hes.begin(), hes.end(), x)): erasing end() is undefined
NotFound(hes, x) == Find(hes, x) = Len(hes)
EraseFound(hes, x) == IF NotFound(hes, x) THEN hes ELSE EraseAt(hes, Find(hes, x))

Rejected(cav, nq, config, why) ==
  [ret |-> FALSE, hes |-> cav.hes, nq |-> nq, config |-> config, why |-> why,
   undefined |-> FALSE, diverges |-> FALSE]

Flipped(hes, nq, config, why, undefined) ==
  [ret |-> TRUE, hes |-> hes, nq |-> nq, config |-> config, why |-> why,
   undefined |-> undefined, diverges |-> FALSE]

\* q1in && q2in && !q3in
FlipMinusTwoQ1Q2(M, cav, i, fc, rejectNewSings) ==
  LET nv1 == vertex(M, fc.he1, 0)
      nv2 == vertex(M, fc.he1, 1)
      n == Len(cav.hes)
      h1 == SetAt(cav.hes, (i + n - 2) % n, fc.he3)
      h2 == EraseFound(h1, fc.he0_op)
      h3 == EraseFound(h2, fc.he1_op)
  IN IF rejectNewSings /\ (IsSing(M, nv1) \/ IsSing(M, nv2))
     THEN Rejected(cav, fc.nq, "q1q2", "singularity")
     ELSE Flipped(h3, fc.nq, "q1q2", "minus2",
                  NotFound(h1, fc.he0_op) \/ NotFound(h2, fc.he1_op))

\* q1in && !q2in && q3in
FlipMinusTwoQ1Q3(M, cav, i, fc, rejectNewSings) ==
  LET nv1 == vertex(M, fc.he0_op, 0)
      nv2 == vertex(M, fc.he0_op, 1)
      n == Len(cav.hes)
      h1 == SetAt(cav.hes, (i + n - 1) % n, fc.he2)
      h2 == EraseFound(h1, fc.he0_op)
      h3 == EraseFound(h2, fc.he3_op)
  IN IF rejectNewSings /\ (IsSing(M, nv1) \/ IsSing(M, nv2))
     THEN Rejected(cav, fc.nq, "q1q3", "singularity")
     ELSE Flipped(h3, fc.nq, "q1q3", "minus2",
                  NotFound(h1, fc.he0_op) \/ NotFound(h2, fc.he3_op))

\* !q1in && q2in && q3in
FlipMinusTwoQ2Q3(M, cav, i, fc, rejectNewSings) ==
  LET nv1 == vertex(M, fc.he3, 0)
      nv2 == vertex(M, fc.he3, 1)
      h1 == SetAt(cav.hes, i, fc.he1)
      h2 == EraseFound(h1, fc.he2_op)
      h3 == EraseFound(h2, fc.he3_op)
  IN IF rejectNewSings /\ (IsSing(M, nv1) \/ IsSing(M, nv2))
     THEN Rejected(cav, fc.nq, "q2q3", "singularity")
     ELSE Flipped(h3, fc.nq, "q2q3", "minus2",
                  NotFound(h1, fc.he2_op) \/ NotFound(h2, fc.he3_op))

\* q1in && q2in && q3in: nv0..nv3 are all read from M.hedges[he0].vertex; the
\* four entries are erased and the loop is rebuilt before the outcome is known
FlipClosingHole(M, cav, i, fc, rejectNewSings) ==
  LET nv0 == At(M.hedges, fc.he0).vertex
      nv1 == At(M.hedges, fc.he0).vertex
      nv2 == At(M.hedges, fc.he0).vertex
      nv3 == At(M.hedges, fc.he0).vertex
      h0 == EraseFound(cav.hes, fc.he0_op)
      h1 == EraseFound(h0, fc.he1_op)
      h2 == EraseFound(h1, fc.he2_op)
      h3 == EraseFound(h2, fc.he3_op)
      undefined == \/ NotFound(cav.hes, fc.he0_op) \/ NotFound(h0, fc.he1_op)
                   \/ NotFound(h1, fc.he2_op) \/ NotFound(h2, fc.he3_op)
      oks == orderedHalfEdgesFromStack(M, h3)
  IN IF rejectNewSings /\ (IsSing(M, nv0) \/ IsSing(M, nv1)
                           \/ IsSing(M, nv2) \/ IsSing(M, nv3))
     THEN Rejected(cav, fc.nq, "q1q2q3", "singularity")
     ELSE IF ~oks.ret
          THEN [ret |-> FALSE, hes |-> oks.hes, nq |-> NO_ID, config |-> "q1q2q3",
                why |-> "sides", undefined |-> undefined, diverges |-> oks.diverges]
          ELSE Flipped(oks.hes, fc.nq, "q1q2q3", "closing", undefined)

\* q1in && !q2in && !q3in, with both entries written before the checks
FlipSameQ1WriteFirst(M, cav, i, fc, rejectNewSings) ==
  LET nv == At(M.hedges, fc.he2).vertex
      val == valenceInsideQuads(M, cav.quads, nv)
      nvIn == At(M.hedges, fc.he0).vertex
      n == Len(cav.hes)
      h1 == SetAt(cav.hes, (i + n - 1) % n, fc.he2)
      h2 == SetAt(h1, i, fc.he3)
  IN IF val > 0
     THEN [Rejected(cav, NO_ID, "q1", "nonmanifold") EXCEPT !.hes = h2]
     ELSE IF rejectNewSings /\ IsSing(M, nvIn)
          THEN [Rejected(cav, NO_ID, "q1", "singularity") EXCEPT !.hes = h2]
          ELSE Flipped(h2, fc.nq, "q1", "same", FALSE)

\* q1in && !q2in && !q3in
FlipSameQ1(M, cav, i, fc, rejectNewSings) ==
  LET nv == At(M.hedges, fc.he2).vertex
      val == valenceInsideQuads(M, cav.quads, nv)
      nvIn == At(M.hedges, fc.he0).vertex
      n == Len(cav.hes)
      h1 == SetAt(cav.hes, (i + n - 1) % n, fc.he2)
      h2 == SetAt(h1, i, fc.he3)
  IN IF val > 0 THEN Rejected(cav, NO_ID, "q1", "nonmanifold")
     ELSE IF rejectNewSings /\ IsSing(M, nvIn)
          THEN Rejected(cav, NO_ID, "q1", "singularity")
          ELSE Flipped(h2, fc.nq, "q1", "same", FALSE)

\* !q1in && !q2in && q3in, without the test of the absorbed vertex
FlipSameQ3NoSingTest(M, cav, i, fc, rejectNewSings) ==
  LET nv == At(M.hedges, fc.he1).vertex
      val == valenceInsideQuads(M, cav.quads, nv)
      n == Len(cav.hes)
      h1 == SetAt(cav.hes, i, fc.he1)
      h2 == SetAt(h1, (i + 1) % n, fc.he2)
  IN IF val > 0 THEN Rejected(cav, NO_ID, "q3", "nonmanifold")
     ELSE Flipped(h2, fc.nq, "q3", "same", FALSE)

\* !q1in && !q2in && q3in
FlipSameQ3(M, cav, i, fc, rejectNewSings) ==
  LET nv == At(M.hedges, fc.he1).vertex
      val == valenceInsideQuads(M, cav.quads, nv)
      nvIn == At(M.hedges, fc.he0_op).vertex
      n == Len(cav.hes)
      h1 == SetAt(cav.hes, i, fc.he1)
      h2 == SetAt(h1, (i + 1) % n, fc.he2)
  IN IF val > 0 THEN Rejected(cav, NO_ID, "q3", "nonmanifold")
     ELSE IF rejectNewSings /\ IsSing(M, nvIn)
          THEN Rejected(cav, NO_ID, "q3", "singularity")
          ELSE Flipped(h2, fc.nq, "q3", "same", FALSE)

\* hes.insert(hes.begin() + i + 1, {a, b})
InsertTwo(hes, i, a, b) ==
  SubSeq(hes, 1, i + 1) \o <<a, b>> \o SubSeq(hes, i + 2, Len(hes))

\* !q1in && !q2in && !q3in, the two new entries inserted in the other order
FlipPlusTwoSwapped(M, cav, i, fc, rejectNewSings) ==
  LET nv1 == At(M.hedges, fc.he1).vertex
      val1 == valenceInsideQuads(M, cav.quads, nv1)
      nv2 == At(M.hedges, fc.he2).vertex
      val2 == valenceInsideQuads(M, cav.quads, nv2)
      v0 == vertex(M, fc.he0, 0)
      v1 == vertex(M, fc.he0, 1)
      concave(v) == IsSing(M, v) /\ valenceOutsideQuads(M, cav.quads, v) = 2
  IN IF val1 > 0 THEN Rejected(cav, NO_ID, "none", "nonmanifold")
     ELSE IF val2 > 0 THEN Rejected(cav, NO_ID, "none", "nonmanifold")
     ELSE IF rejectNewSings /\ (concave(v0) \/ concave(v1))
          THEN Rejected(cav, fc.nq, "none", "concave")
          ELSE Flipped(InsertTwo(SetAt(cav.hes, i, fc.he1), i, fc.he3, fc.he2),
                       fc.nq, "none", "plus2", FALSE)

\* !q1in && !q2in && !q3in
FlipPlusTwo(M, cav, i, fc, rejectNewSings) ==
  LET nv1 == At(M.hedges, fc.he1).vertex
      val1 == valenceInsideQuads(M, cav.quads, nv1)
      nv2 == At(M.hedges, fc.he2).vertex
      val2 == valenceInsideQuads(M, cav.quads, nv2)
      v0 == vertex(M, fc.he0, 0)
      v1 == vertex(M, fc.he0, 1)
      concave(v) == IsSing(M, v) /\ valenceOutsideQuads(M, cav.quads, v) = 2
  IN IF val1 > 0 THEN Rejected(cav, NO_ID, "none", "nonmanifold")
     ELSE IF val2 > 0 THEN Rejected(cav, NO_ID, "none", "nonmanifold")
     ELSE IF rejectNewSings /\ (concave(v0) \/ concave(v1))
          THEN Rejected(cav, fc.nq, "none", "concave")
          ELSE Flipped(InsertTwo(SetAt(cav.hes, i, fc.he1), i, fc.he2, fc.he3),
                       fc.nq, "none", "plus2", FALSE)

\* the case analysis on q1in, q2in, q3in
FlipCases(M, cav, i, fc, rejectNewSings) ==
  IF fc.q1in /\ fc.q2in /\ ~fc.q3in
    THEN FlipMinusTwoQ1Q2(M, cav, i, fc, rejectNewSings)
  ELSE IF fc.q1in /\ ~fc.q2in /\ fc.q3in
    THEN FlipMinusTwoQ1Q3(M, cav, i, fc, rejectNewSings)
  ELSE IF ~fc.q1in /\ fc.q2in /\ fc.q3in
    THEN FlipMinusTwoQ2Q3(M, cav, i, fc, rejectNewSings)
  ELSE IF fc.q1in /\ fc.q2in /\ fc.q3in
    THEN FlipClosingHole(M, cav, i, fc, rejectNewSings)
  ELSE IF fc.q1in /\ ~fc.q2in /\ ~fc.q3in
    THEN FlipSameQ1(M, cav, i, fc, rejectNewSings)
  ELSE IF ~fc.q1in /\ ~fc.q2in /\ fc.q3in
    THEN FlipSameQ3(M, cav, i, fc, rejectNewSings)
  ELSE IF ~fc.q1in /\ ~fc.q2in /\ ~fc.q3in
    THEN FlipPlusTwo(M, cav, i, fc, rejectNewSings)
  ELSE Rejected(cav, NO_ID, "q2", "unsupported")

\* growByFlip up to its last statement: the early returns, then the cases
FlipOutcome(M, cav, i, rejectNewSings) ==
  IF i >= Len(cav.hes) THEN Rejected(cav, NO_ID, "early", "range")
  ELSE IF opposite(M, At(cav.hes, i)) = NO_ID
       THEN Rejected(cav, NO_ID, "early", "bdr")
       ELSE FlipCases(M, cav, i, FlipContext(M, cav, i), rejectNewSings)

\* growByFlip without quads.insert(info.nq)
InsertNoQuad(cav, r) ==
  [ret |-> r.ret,
   cav |-> [hes |-> r.hes, side |-> cav.side, quads |-> cav.quads],
   nq |-> r.nq, config |-> r.config, why |-> r.why,
   undefined |-> r.undefined, diverges |-> r.diverges]

\* quads.insert(info.nq) when the case r ended with true
InsertNewQuad(cav, r) ==
  [ret |-> r.ret,
   cav |-> [hes |-> r.hes, side |-> cav.side,
            quads |-> IF r.ret THEN cav.quads \cup {r.nq} ELSE cav.quads],
   nq |-> r.nq, config |-> r.config, why |-> r.why,
   undefined |-> r.undefined, diverges |-> r.diverges]

(* growByFlip(i, info, rejectNewSings): ret, the cavity after the call,     *)
(* info.nq, the case taken and why; undefined when an erase got end().      *)
growByFlip(M, cav, i, rejectNewSings) ==
  InsertNewQuad(cav, FlipOutcome(M, cav, i, rejectNewSings))

(***************************************************************************)
(* Gardener: the growth of a cavity                                        *)
(***************************************************************************)

\* the constructor: valence and vOnBoundary from the faces of M
Gardener(M) ==
  [valence |-> [v \in Idx(M.vertices) |->
                  Cardinality({he \in Idx(M.hedges) : At(M.hedges, he).vertex = v})],
   vOnBoundary |-> [v \in Idx(M.vertices) |->
                      \E he \in Idx(M.hedges) :
                        /\ opposite(M, he) = NO_ID
                        /\ v \in {vertex(M, he, 0), vertex(M, he, 1)}],
   current |-> FALSE,
   valenceInCavity |-> [v \in Idx(M.vertices) |-> 0],
   cavityTargetNbOfSides |-> 0,
   sings |-> {}, singsBdr |-> {}, irregular |-> {},
   lastCav |-> EmptyCavity, lastNbIrregular |-> 0, lastIrregularity |-> DBL_MAX]

IsIrregular(G, v) ==
  \/ G.vOnBoundary[v] /\ G.valence[v] # 2
  \/ ~G.vOnBoundary[v] /\ G.valence[v] # 4

setCavity(M, G, cav) ==
  IF cav.quads = {} \/ cav.hes = <<>> THEN [ret |-> FALSE, G |-> G]
  ELSE LET vic == [v \in Idx(M.vertices) |->
                     Cardinality({he \in Idx(M.hedges) :
                                    /\ At(M.hedges, he).face \in cav.quads
                                    /\ At(M.hedges, he).vertex = v})]
           touched == {v \in Idx(M.vertices) : vic[v] > 0}
           asings == {v \in touched : IsSing(M, v)}
           nbq == Cardinality(cav.quads)
       IN [ret |-> TRUE,
           G |-> [G EXCEPT
                    !.current = TRUE,
                    !.valenceInCavity = vic,
                    !.irregular = {v \in touched \ asings : IsIrregular(G, v)},
                    !.cavityTargetNbOfSides =
                       IF nbq = 3 THEN 3
                       ELSE IF nbq = 4 \/ nbq = 1 THEN 4
                       ELSE IF nbq = 5 THEN 5 ELSE 0,
                    !.lastNbIrregular = 0,
                    !.lastCav = EmptyCavity,
                    !.sings = {v \in asings : vic[v] = G.valence[v]},
                    !.singsBdr = {v \in asings : vic[v] # G.valence[v]}]]

\* markNewQuad: abort() when a flagged vertex has all its faces in the cavity
markNewQuad(M, G, nq) ==
  LET fv == face_vertices(M, nq)
      vs == Range(fv)
      v1 == [G.valenceInCavity EXCEPT ![fv[1]] = @ + 1]
      v2 == [v1 EXCEPT ![fv[2]] = @ + 1]
      v3 == [v2 EXCEPT ![fv[3]] = @ + 1]
      vic == [v3 EXCEPT ![fv[4]] = @ + 1]
      flagged == {v \in vs : IsSing(M, v)}
  IN [aborted |-> \E v \in flagged : vic[v] = G.valence[v],
      G |-> [G EXCEPT
               !.valenceInCavity = vic,
               !.singsBdr = @ \cup {v \in flagged : vic[v] # G.valence[v]},
               !.irregular = @ \cup {v \in vs \ flagged : IsIrregular(G, v)}]]

\* the test of convexify on entry i of hes
ConvexifyCandidate(M, G, cav, i) ==
  LET v1 == vertex(M, At(cav.hes, i), 0)
      v2 == vertex(M, At(cav.hes, i), 1)
  IN \/ ~G.vOnBoundary[v1] /\ G.valence[v1] - G.valenceInCavity[v1] = 1
     \/ ~G.vOnBoundary[v2] /\ G.valence[v2] - G.valenceInCavity[v2] = 1

(* convexify: passes over hes until a pass flips nothing; the entries that  *)
(* fail the test are stepped over at once.  ConvexifyFlip is the body of    *)
(* the for loop at entry j, r the outcome of its growByFlip.                *)
RECURSIVE ConvexifyLoop(_, _, _, _, _)
RECURSIVE ConvexifyFlip(_, _, _, _, _)
RECURSIVE ConvexifyMark(_, _, _, _, _)
ConvexifyLoop(M, G, cav, i, running) ==
  LET cands == {j \in i .. (Len(cav.hes) - 1) : ConvexifyCandidate(M, G, cav, j)}
  IN IF cands = {}
     THEN IF running THEN ConvexifyLoop(M, G, cav, 0, FALSE)
          ELSE [cav |-> cav, G |-> G, status |-> "ok"]
     ELSE ConvexifyFlip(M, G, MinOf(cands), running,
                        growByFlip(M, cav, MinOf(cands), TRUE))

ConvexifyFlip(M, G, j, running, r) ==
  IF r.undefined THEN [cav |-> r.cav, G |-> G, status |-> "undefined"]
  ELSE IF r.diverges THEN [cav |-> r.cav, G |-> G, status |-> "diverges"]
  ELSE IF ~r.ret THEN ConvexifyLoop(M, G, r.cav, j + 1, running)
  ELSE ConvexifyMark(M, r.cav, j, running, markNewQuad(M, G, r.nq))

ConvexifyMark(M, cav, j, running, m) ==
  IF m.aborted THEN [cav |-> cav, G |-> m.G, status |-> "aborted"]
  ELSE ConvexifyLoop(M, m.G, cav, j + 1, TRUE)

convexify(M, G, cav) == ConvexifyLoop(M, G, cav, 0, TRUE)

(* growIsotropic: each turn of the while loop tries up to hes.size() entries *)
(* i = rand() % hes.size() and stops at the first flip that succeeds.  The   *)
(* values of rand() are any values.  IsoTries is the set of ways try k and   *)
(* the following tries of one turn can end; rs holds what growByFlip does at *)
(* each entry.  A try that fails and changes nothing can come again, so a    *)
(* try that fails and changes the cavity can be any of the tries left.       *)
RECURSIVE IsoTries(_, _, _, _)
RECURSIVE IsoTry(_, _, _, _, _)
RECURSIVE IsoAfter(_, _, _, _, _)
IsoTries(M, G, cav, k) ==
  IF k >= Len(cav.hes)
  THEN {[cav |-> cav, G |-> G, flipped |-> FALSE, status |-> "ok"]}
  ELSE IsoTry(M, G, cav, k, {growByFlip(M, cav, i, TRUE) : i \in Idx(cav.hes)})

IsoTry(M, G, cav, k, rs) ==
  IF \E r \in rs : ~r.undefined /\ ~r.diverges /\ ~r.ret /\ r.cav = cav
  THEN UNION {IsoAfter(M, G, cav, k .. (Len(cav.hes) - 1), r) : r \in rs}
  ELSE UNION {IsoAfter(M, G, cav, {k}, r) : r \in rs}

IsoMarked(cav, m) ==
  [cav |-> cav, G |-> m.G, flipped |-> TRUE,
   status |-> IF m.aborted THEN "aborted" ELSE "ok"]

IsoAfter(M, G, cav, tries, r) ==
  IF r.undefined
  THEN {[cav |-> r.cav, G |-> G, flipped |-> FALSE, status |-> "undefined"]}
  ELSE IF r.diverges
  THEN {[cav |-> r.cav, G |-> G, flipped |-> FALSE, status |-> "diverges"]}
  ELSE IF r.ret THEN {IsoMarked(r.cav, markNewQuad(M, G, r.nq))}
  ELSE IF r.cav = cav
  THEN {[cav |-> cav, G |-> G, flipped |-> FALSE, status |-> "ok"]}
  ELSE UNION {IsoTries(M, G, r.cav, k2 + 1) : k2 \in tries}

\* the turns of the while loop from the cavities S reached with nb flips
RECURSIVE IsoRounds(_, _, _, _)
RECURSIVE IsoSplit(_, _, _, _)
IsoRounds(M, S, nb, N) ==
  IF nb >= N \/ S = {}
  THEN {[cav |-> s.cav, G |-> s.G, status |-> "ok", nb |-> nb] : s \in S}
  ELSE IsoSplit(M, UNION {IsoTries(M, s.G, s.cav, 0) : s \in S}, nb, N)

\* outs: how the turns ended; the loop goes on after a flip that did not abort
IsoSplit(M, outs, nb, N) ==
  {[cav |-> o.cav, G |-> o.G, status |-> o.status,
    nb |-> IF o.flipped THEN nb + 1 ELSE nb] :
     o \in {x \in outs : ~(x.flipped /\ x.status = "ok")}}
  \cup IsoRounds(M, {[cav |-> o.cav, G |-> o.G] :
                       o \in {x \in outs : x.flipped /\ x.status = "ok"}}, nb + 1, N)

\* the cavities growIsotropic(N) can leave, with the number of flips done
growIsotropic(M, G, cav, N) == IsoRounds(M, {[cav |-> cav, G |-> G]}, 0, N)

(***************************************************************************)
(* Repair of small defects: remeshSmallDefects and its helpers             *)
(*                                                                         *)
(* gf = [quadrangles, mesh_vertices] holds the face's lists of MElement    *)
(* and MVertex pointers (ids); heap = [elem, vert] holds the live objects: *)
(* elem maps a live element to its four vertices, vert is the set of live  *)
(* vertices; cad = [onWhat, vAngle] gives the CAD class of the vertices    *)
(* on corners and curves and their accumulated angle, counted in quarter   *)
(* turns (round(4 * angle / 2 pi)); adj is the vertex -> quads map.  S is  *)
(* the triple [gf, heap, adj] the loop body works on.                      *)
(***************************************************************************)
CORNER == 1
CURVE == 2
SURFACE == 3


clamp(x, lower, upper) == IF x < lower THEN lower ELSE IF x > upper THEN upper ELSE x

Abs(x) == IF x < 0 THEN 0 - x ELSE x

\* the elements of S in increasing order (std::sort followed by std::unique)
SortSet(S) ==
  [k \in 1 .. Cardinality(S) |-> CHOOSE x \in S : Cardinality({y \in S : y < x}) = k - 1]

sort_unique(vec) == SortSet(Range(vec))

difference(v1, v2) == SortSet(Range(v1) \ Range(v2))

RECURSIVE SeqSum(_)
SeqSum(s) == IF s = <<>> THEN 0 ELSE Head(s) + SeqSum(Tail(s))

\* std::find followed by erase when found
EraseFirst(s, x) == IF \E k \in 1 .. Len(s) : s[k] = x THEN EraseAt(s, Find(s, x)) ELSE s

\* every vertex of a face is classified on a corner, a curve or the face
vertexSupport(cad, v) == IF v \in DOMAIN cad.onWhat THEN cad.onWhat[v] ELSE SURFACE

vertexOnBoundary(cad, v) == vertexSupport(cad, v) \in {CORNER, CURVE}

vertexIdealValence(cad, v) ==
  IF v \in DOMAIN cad.vAngle THEN clamp(cad.vAngle[v], 1, 4) ELSE 4

\* adj[v].push_back(e); operator[] creates the entry of a new vertex
AdjPush(adj, v, e) ==
  IF v \in DOMAIN adj
  THEN [adj EXCEPT ![v] = Append(@, e)]
  ELSE [x \in (DOMAIN adj) \cup {v} |-> IF x = v THEN <<e>> ELSE adj[x]]

addToAdjacencyList(heap, e, adj) ==
  AdjPush(AdjPush(AdjPush(AdjPush(adj, heap.elem[e][1], e), heap.elem[e][2], e),
                  heap.elem[e][3], e), heap.elem[e][4], e)

AdjErase(adj, v, e) ==
  IF v \in DOMAIN adj THEN [adj EXCEPT ![v] = EraseFirst(@, e)] ELSE adj

removeElement(S, e) ==
  [gf |-> [S.gf EXCEPT !.quadrangles = EraseFirst(@, e)],
   heap |-> [S.heap EXCEPT !.elem = [f \in (DOMAIN S.heap.elem) \ {e} |-> S.heap.elem[f]]],
   adj |-> AdjErase(AdjErase(AdjErase(AdjErase(S.adj, S.heap.elem[e][1], e),
                                      S.heap.elem[e][2], e), S.heap.elem[e][3], e),
                    S.heap.elem[e][4], e)]

\* a removal that leaves the entry of the vertex in the adjacency map
removeVertexKeepEntry(S, cad, v) ==
  [gf |-> [S.gf EXCEPT !.mesh_vertices = EraseFirst(@, v)],
   heap |-> [S.heap EXCEPT !.vert = @ \ {v}],
   adj |-> S.adj]

\* a vertex classified on a curve or a corner is erased from that entity's
\* list, which is not part of the face
removeVertex(S, cad, v) ==
  [gf |-> IF vertexSupport(cad, v) = SURFACE
          THEN [S.gf EXCEPT !.mesh_vertices = EraseFirst(@, v)]
          ELSE S.gf,
   heap |-> [S.heap EXCEPT !.vert = @ \ {v}],
   adj |-> [x \in (DOMAIN S.adj) \ {v} |-> S.adj[x]]]

RECURSIVE RemoveElements(_, _, _)
RemoveElements(S, quads, k) ==
  IF k > Len(quads) THEN S ELSE RemoveElements(removeElement(S, quads[k]), quads, k + 1)

RECURSIVE RemoveVertices(_, _, _, _)
RemoveVertices(S, cad, inside, k) ==
  IF k > Len(inside) THEN S
  ELSE RemoveVertices(removeVertex(S, cad, inside[k]), cad, inside, k + 1)

\* the adjacency map built at the start of remeshSmallDefects
RECURSIVE BuildAdjacency(_, _, _, _)
BuildAdjacency(gf, heap, adj, k) ==
  IF k > Len(gf.quadrangles) THEN adj
  ELSE BuildAdjacency(gf, heap, addToAdjacencyList(heap, gf.quadrangles[k], adj), k + 1)

ElementsVertices(heap, quads) == [k \in 1 .. Len(quads) |-> heap.elem[quads[k]]]

VerticesOf(tuples) == UNION {Range(tuples[k]) : k \in 1 .. Len(tuples)}

\* MQuadrangle::getEdge(j), j = 0 .. 3
getEdge(t, j) == <<t[j + 1], t[((j + 1) % 4) + 1]>>

EdgeList(tuples) ==
  [k \in 1 .. 4 * Len(tuples) |-> getEdge(tuples[((k - 1) \div 4) + 1], (k - 1) % 4)]

\* MEdgeLessThan: by smallest vertex, then by largest vertex
EdgeMin(e) == IF e[1] < e[2] THEN e[1] ELSE e[2]
EdgeMax(e) == IF e[1] < e[2] THEN e[2] ELSE e[1]
MEdgeLess(e, f) ==
  EdgeMin(e) < EdgeMin(f) \/ (EdgeMin(e) = EdgeMin(f) /\ EdgeMax(e) < EdgeMax(f))
SameEdge(e, f) == {e[1], e[2]} = {f[1], f[2]}

\* the edges left after dropping the pairs of equal edges of the sorted list:
\* one copy of every edge met an odd number of times, in MEdgeLessThan order
UnpairedEdges(eds) ==
  LET odd == {k \in 1 .. Len(eds) :
                /\ Cardinality({j \in 1 .. Len(eds) : SameEdge(eds[j], eds[k])}) % 2 = 1
                /\ \A j \in 1 .. (k - 1) : ~SameEdge(eds[j], eds[k])}
  IN [n \in 1 .. Cardinality(odd) |->
        eds[CHOOSE k \in odd :
              Cardinality({j \in odd : MEdgeLess(eds[j], eds[k])}) = n - 1]]

Neighbours(veds, x) ==
  {EdgeMax(veds[k]) : k \in {j \in 1 .. Len(veds) : EdgeMin(veds[j]) = x}}
    \cup {EdgeMin(veds[k]) : k \in {j \in 1 .. Len(veds) : EdgeMax(veds[j]) = x}}

RECURSIVE WalkLoop(_, _, _, _, _)
WalkLoop(veds, start, before, current, v) ==
  IF current = start THEN Append(v, current)
  ELSE WalkLoop(veds, start, current,
                CHOOSE y \in Neighbours(veds, current) : y # before, Append(v, current))

\* SortEdgeConsecutive on a list whose vertices all meet two edges: the
\* loops, each starting at its smallest vertex, heading to the other end of
\* the first listed edge at that vertex, and closed by repeating the start
RECURSIVE SortLoops(_, _)
SortLoops(veds, vs) ==
  IF veds = <<>> THEN vs
  ELSE LET start == MinOf({EdgeMin(veds[k]) : k \in 1 .. Len(veds)})
           first == veds[CHOOSE k \in 1 .. Len(veds) :
                           /\ start \in {veds[k][1], veds[k][2]}
                           /\ \A j \in 1 .. (k - 1) : start \notin {veds[j][1], veds[j][2]}]
           loop == WalkLoop(veds, start, start, EdgeMax(first), <<start>>)
       IN SortLoops(SelectSeq(veds, LAMBDA e : e[1] \notin Range(loop)), Append(vs, loop))

SortEdgeConsecutive(veds) ==
  IF \E x \in VerticesOf(veds) : Cardinality(Neighbours(veds, x)) # 2
  THEN [ok |-> FALSE, vsorted |-> <<>>]
  ELSE [ok |-> TRUE, vsorted |-> SortLoops(veds, <<>>)]

Reverse(s) == [k \in 1 .. Len(s) |-> s[Len(s) + 1 - k]]

\* the part of buildBoundary after the sort: one loop only, reversed when the
\* first unpaired edge runs against it
OrientBoundary(veds, sorted) ==
  IF ~sorted.ok \/ Len(sorted.vsorted) # 1 THEN [ok |-> FALSE, bnd |-> <<>>]
  ELSE LET loop == sorted.vsorted[1]
           n == Len(loop)
           v1 == veds[1][1]
           v2 == veds[1][2]
           i == Find(loop, v1)
       IN IF i = n THEN [ok |-> FALSE, bnd |-> <<>>]
          ELSE IF At(loop, (i + 1) % n) = v2 THEN [ok |-> TRUE, bnd |-> loop]
          ELSE IF At(loop, (i + n - 1) % n) = v2 THEN [ok |-> TRUE, bnd |-> Reverse(loop)]
          ELSE [ok |-> FALSE, bnd |-> <<>>]

BoundaryFromEdges(veds) ==
  IF veds = <<>> THEN [ok |-> FALSE, bnd |-> <<>>]
  ELSE OrientBoundary(veds, SortEdgeConsecutive(veds))

buildBoundary(heap, quads) ==
  BoundaryFromEdges(UnpairedEdges(EdgeList(ElementsVertices(heap, quads))))

\* bnd.resize(bnd.size() - 1) when the loop repeats its first vertex
DropRepeatedEnd(bnd) ==
  IF Len(bnd) > 0 /\ bnd[Len(bnd)] = bnd[1] THEN SubSeq(bnd, 1, Len(bnd) - 1) ELSE bnd

verticesStrictlyInsideCavity(heap, quads, bnd) ==
  difference(SortSet(VerticesOf(ElementsVertices(heap, quads))), bnd)

\* qval[v]: number of corners of the given elements at v
QVal(tuples, v) ==
  Cardinality({p \in (1 .. Len(tuples)) \X (1 .. 4) : tuples[p[1]][p[2]] = v})

BoundaryTerm(val, ideal, range) ==
  IF val = 0 THEN 0
  ELSE (val - ideal) * (val - ideal)
       + (IF range[1] = range[2] /\ val # range[1] THEN 1000 * Abs(val - range[1]) ELSE 0)

InsideTerm(val) ==
  IF val = 0 THEN 0
  ELSE (val - 4) * (val - 4) + (IF val > 5 THEN 1000 * (val - 5) ELSE 0)

\* quads is given by the vertices of its elements
irregularityEnergyOfCavity(bnd, bndIdealValence, bndAllowedValenceRange, inside, quads) ==
  SeqSum([i \in 1 .. Len(bnd) |->
            BoundaryTerm(QVal(quads, bnd[i]), bndIdealValence[i], bndAllowedValenceRange[i])])
  + SeqSum([i \in 1 .. Len(inside) |-> InsideTerm(QVal(quads, inside[i]))])

RingTerm(cad, vs, v2, val) ==
  IF vertexOnBoundary(cad, v2)
  THEN (val - vertexIdealValence(cad, v2)) * (val - vertexIdealValence(cad, v2))
  ELSE IF vs = SURFACE THEN (val - 4) * (val - 4) ELSE 0

irregularityEnergyOnRing(heap, cad, v, adj) ==
  LET bnd == SortSet(VerticesOf(ElementsVertices(heap, adj[v])) \ {v})
  IN SeqSum([k \in 1 .. Len(bnd) |->
               RingTerm(cad, vertexSupport(cad, v), bnd[k], Len(adj[bnd[k]]))])

\* the priority both queue fillers give to a vertex of the adjacency map
DefectPriority(heap, cad, v, adj) ==
  irregularityEnergyOnRing(heap, cad, v, adj)
  + (IF vertexSupport(cad, v) = CURVE /\ Len(adj[v]) > 2
     THEN 1000 * Abs(Len(adj[v]) - 2) ELSE 0)
  + (IF vertexSupport(cad, v) = SURFACE /\ Len(adj[v]) > 5
     THEN 1000 * Abs(Len(adj[v]) - 4) ELSE 0)

\* the queue is kept as the set of its entries <<priority, vertex>>: an entry
\* pushed twice is held once
initPriorityQueueWithDefects(pass, heap, cad, adj, Q) ==
  Q \cup {<<DefectPriority(heap, cad, v, adj), v>> :
            v \in {x \in DOMAIN adj : vertexSupport(cad, x) = pass}}

addAffectedVerticesToQueue(pass, S, cad, quads, Q) ==
  Q \cup {e \in {<<DefectPriority(S.heap, cad, v2, S.adj), v2>> :
                   v2 \in {x \in VerticesOf(ElementsVertices(S.heap,
                                  SelectSeq(quads, LAMBDA q : q \in Range(S.gf.quadrangles)))) :
                             vertexSupport(cad, x) = pass}} :
            e[1] > 0}

\* Q.top(): the greatest entry; entries of equal priority are ordered by the
\* addresses of their vertices, which the allocator decides
QueueTop(Q) == {e \in Q : \A f \in Q : f[1] <= e[1]}

IsDiamond(heap, cad, v, adj, f) ==
  \E lv \in 0 .. 3 :
    /\ At(heap.elem[f], lv) = v
    /\ Len(adj[At(heap.elem[f], (lv + 4 - 1) % 4)]) > 3
    /\ Len(adj[At(heap.elem[f], (lv + 2) % 4)]) = 3
    /\ Len(adj[At(heap.elem[f], (lv + 1) % 4)]) > 3
    /\ ~vertexOnBoundary(cad, At(heap.elem[f], (lv + 4 - 1) % 4))
    /\ ~vertexOnBoundary(cad, At(heap.elem[f], (lv + 2) % 4))
    /\ ~vertexOnBoundary(cad, At(heap.elem[f], (lv + 1) % 4))

\* the quads of the four vertices of quads[0] are pushed, then sort_unique
GrowAroundQuad(heap, adj, f) ==
  SortSet({f} \cup UNION {Range(adj[v2]) : v2 \in Range(heap.elem[f]) \cap DOMAIN adj})

RemeshableFrom(heap, cad, v, adj, vs, ideal, quads) ==
  IF \/ vs = CORNER /\ Len(quads) = ideal
     \/ vs = CURVE /\ Len(quads) = 2
     \/ vs = SURFACE /\ Len(quads) \in {4, 5}
  THEN [toRemesh |-> FALSE, ideal |-> ideal, quads |-> quads]
  ELSE IF vs = SURFACE /\ Len(quads) = 3
  THEN LET diamonds == SelectSeq(quads, LAMBDA f : IsDiamond(heap, cad, v, adj, f))
       IN IF diamonds = <<>>
          THEN [toRemesh |-> FALSE, ideal |-> ideal, quads |-> quads]
          ELSE [toRemesh |-> TRUE, ideal |-> ideal,
                quads |-> GrowAroundQuad(heap, adj, diamonds[1])]
  ELSE IF Len(quads) = 1 /\ ((vs = CORNER /\ ideal >= 2) \/ (vs = CURVE /\ ideal >= 2))
  THEN [toRemesh |-> TRUE, ideal |-> ideal, quads |-> GrowAroundQuad(heap, adj, quads[1])]
  ELSE [toRemesh |-> TRUE, ideal |-> ideal, quads |-> quads]

remeshableVertexProperties(heap, cad, v, adj) ==
  RemeshableFrom(heap, cad, v, adj, vertexSupport(cad, v),
                 IF vertexSupport(cad, v) = CORNER THEN vertexIdealValence(cad, v)
                 ELSE IF vertexSupport(cad, v) = CURVE THEN 2 ELSE 4,
                 adj[v])

\* ideal valence of a cavity-boundary vertex before the exterior quads are
\* taken off
BoundaryIdeal(cad, bv) ==
  IF vertexSupport(cad, bv) = CORNER THEN vertexIdealValence(cad, bv)
  ELSE IF vertexSupport(cad, bv) = CURVE THEN 2 ELSE 4

\* a range that only bounds the valence from above when nothing is outside
AllowedValenceRangeLoose(bvs, vs, bival, exterior) ==
  IF exterior = 0 THEN <<1, bival>> ELSE <<1, 1>>

\* a range that widens with the number of quads outside
AllowedValenceRangeWidening(bvs, vs, bival, exterior) ==
  IF exterior = 0 THEN <<bival, bival>> ELSE <<1, 1 + exterior>>

\* allowTemporaryDuet is the constant true
AllowedValenceRange(bvs, vs, bival, exterior) ==
  IF exterior = 0 THEN <<bival, bival>>
  ELSE IF bvs = CORNER THEN <<1, 1>>
  ELSE IF bvs = CURVE THEN (IF vs = CORNER THEN <<1, 2>> ELSE <<1, 1>>)
  ELSE IF vs = CORNER \/ vs = CURVE
  THEN (IF exterior = 1 THEN <<1, 6>>
        ELSE IF exterior = 2 THEN <<1, 5>>
        ELSE IF exterior = 3 THEN <<1, 4>>
        ELSE IF exterior = 4 THEN <<1, 3>>
        ELSE IF exterior = 5 THEN <<1, 2>>
        ELSE <<1, 1>>)
  ELSE (IF exterior = 1 THEN <<1, 4>>
        ELSE IF exterior = 2 THEN <<1, 3>>
        ELSE IF exterior = 3 THEN <<1, 2>>
        ELSE <<1, 1>>)

NbExterior(adj, quads, bv) == Len(difference(adj[bv], quads))

\* the cavity signature; cancel is set for a vertex of no known class
CavitySignature(cad, adj, vs, quads, bnd) ==
  [cancel |-> \E i \in 1 .. Len(bnd) : vertexSupport(cad, bnd[i]) \notin {CORNER, CURVE, SURFACE},
   bndIdealValence |->
     [i \in 1 .. Len(bnd) |-> BoundaryIdeal(cad, bnd[i]) - NbExterior(adj, quads, bnd[i])],
   bndAllowedValenceRange |->
     [i \in 1 .. Len(bnd) |->
        AllowedValenceRange(vertexSupport(cad, bnd[i]), vs, BoundaryIdeal(cad, bnd[i]),
                            NbExterior(adj, quads, bnd[i]))]]

\* templates of the disk quadrangulation library over a boundary b with an
\* even number of vertices, wound like b: the quads around one new vertex c,
\* the boundary itself as one quad, a hexagon cut in two, an octagon in three
Rotate(b, r) == [k \in 1 .. Len(b) |-> b[((k - 1 + r) % Len(b)) + 1]]

FanTemplate(b, c) ==
  [k \in 1 .. (Len(b) \div 2) |-> <<c, b[2 * k - 1], b[2 * k], b[((2 * k) % Len(b)) + 1]>>]

\* remeshFewQuads: status 0 with the new vertices and the new elements (given
\* by their vertices) of a template, or a nonzero status and nothing; c is the
\* vertex a template allocates
remeshFewQuads(bnd, c) ==
  {[status |-> 1, newVertices |-> <<>>, newElements |-> <<>>]}
    \cup (IF Len(bnd) % 2 # 0 \/ Len(bnd) < 4 THEN {}
          ELSE {[status |-> 0, newVertices |-> <<c>>,
                 newElements |-> FanTemplate(Rotate(bnd, r), c)] : r \in 0 .. 1})
    \cup (IF Len(bnd) # 4 THEN {}
          ELSE {[status |-> 0, newVertices |-> <<>>,
                 newElements |-> <<<<bnd[1], bnd[2], bnd[3], bnd[4]>>>>]})
    \cup (IF Len(bnd) # 6 THEN {}
          ELSE {[status |-> 0, newVertices |-> <<>>,
                 newElements |->
                   LET b == Rotate(bnd, r)
                   IN <<<<b[1], b[2], b[3], b[4]>>, <<b[1], b[4], b[5], b[6]>>>>] :
                r \in 0 .. 2})
    \cup (IF Len(bnd) # 8 THEN {}
          ELSE {[status |-> 0, newVertices |-> <<>>,
                 newElements |->
                   LET b == Rotate(bnd, r)
                   IN <<<<b[1], b[2], b[3], b[4]>>, <<b[1], b[4], b[5], b[8]>>,
                        <<b[5], b[6], b[7], b[8]>>>>] :
                r \in 0 .. 3})

(* one more template, over a boundary of four vertices: three quads around  *)
(* two new vertices c and d, each of them in two quads                      *)
remeshFewQuadsInThree(bnd, c, d) ==
  IF Len(bnd) # 4 THEN {}
  ELSE {[status |-> 0, newVertices |-> <<c, d>>,
         newElements |->
           LET b == Rotate(bnd, r)
           IN <<<<b[1], b[2], b[3], c>>, <<b[1], c, b[3], d>>, <<b[1], d, b[3], b[4]>>>>] :
          r \in 0 .. 1}

MaxOf(S) == CHOOSE x \in S : \A y \in S : y <= x

\* the addresses the allocator may give to a new vertex: the lowest free one
\* (a freed vertex's when there is one) or one above all; the vertices of
\* corners and curves belong to other entities and keep theirs
FreshVertices(heap, cad) ==
  {MinOf({x \in 1 .. (Cardinality(heap.vert \cup DOMAIN cad.onWhat) + 1) :
            x \notin heap.vert \cup DOMAIN cad.onWhat}),
   MaxOf(heap.vert \cup DOMAIN cad.onWhat \cup {0}) + 1}

\* the addresses of two vertices allocated one after the other
FreshPairs(heap, cad) ==
  UNION {{<<c, d>> : d \in FreshVertices([heap EXCEPT !.vert = @ \cup {c}], cad)} :
           c \in FreshVertices(heap, cad)}

FreshElements(heap, n) ==
  SubSeq(SortSet({x \in 1 .. (Cardinality(DOMAIN heap.elem) + n) : x \notin DOMAIN heap.elem}),
         1, n)

\* the objects remeshFewQuads returns are live; newElements are their ids
Allocated(heap, cand) ==
  [heap |->
     [elem |-> LET ids == FreshElements(heap, Len(cand.newElements))
               IN [f \in (DOMAIN heap.elem) \cup Range(ids) |->
                     IF f \in DOMAIN heap.elem THEN heap.elem[f]
                     ELSE cand.newElements[Find(ids, f) + 1]],
      vert |-> heap.vert \cup Range(cand.newVertices)],
   newVertices |-> cand.newVertices,
   newElements |-> FreshElements(heap, Len(cand.newElements))]

RECURSIVE AddElements(_, _, _)
AddElements(S, newElements, k) ==
  IF k > Len(newElements) THEN S
  ELSE AddElements([S EXCEPT !.gf.quadrangles = Append(@, newElements[k]),
                             !.adj = addToAdjacencyList(S.heap, newElements[k], @)],
                   newElements, k + 1)

\* the new vertices and elements enter the face and the adjacency map
AddNewElements(S, alloc) ==
  AddElements([S EXCEPT !.gf.mesh_vertices = @ \o alloc.newVertices],
              alloc.newElements, 1)

\* a cancel that comes after the new elements entered the face
CancelAfterSplice(S, alloc) == AddNewElements(S, alloc)

\* cancel remeshing: the new vertices and the new elements are deleted
CancelRemeshing(S, alloc) ==
  [S EXCEPT !.heap =
     [elem |-> [f \in (DOMAIN S.heap.elem) \ Range(alloc.newElements) |-> S.heap.elem[f]],
      vert |-> S.heap.vert \ Range(alloc.newVertices)]]

\* the test that rejects a candidate when equal energies are let through
EnergyIncreases(energy_after, energy_before) == energy_after > energy_before

EnergyNotBetter(energy_after, energy_before) == energy_after >= energy_before

\* duets queued like any other vertex, with a priority of 1
DuetsWithLowPriority(cad, adj, bnd) ==
  {<<1, bnd[j]>> :
     j \in {i \in 1 .. Len(bnd) : vertexSupport(cad, bnd[i]) = SURFACE /\ Len(adj[bnd[i]]) = 2}}

DuetsOnBoundary(cad, adj, bnd) ==
  {<<DBL_MAX, bnd[j]>> :
     j \in {i \in 1 .. Len(bnd) : vertexSupport(cad, bnd[i]) = SURFACE /\ Len(adj[bnd[i]]) = 2}}

NoAttempt ==
  [kind |-> "none", v |-> 0, dangling |-> FALSE, status |-> 0, duet |-> FALSE,
   energy_before |-> 0, energy_after |-> 0, quads |-> <<>>, oldElements |-> <<>>,
   bnd |-> <<>>, bndIdealValence |-> <<>>, bndAllowedValenceRange |-> <<>>,
   inside |-> <<>>, newVertices |-> <<>>, newIds |-> <<>>, newElements |-> <<>>,
   reseeded |-> FALSE]

\* an iteration left by continue, or by the failure branch: remaining is false
Unchanged(S, Q, a) ==
  [gf |-> S.gf, heap |-> S.heap, adj |-> S.adj, Q |-> Q, accepted |-> FALSE, att |-> a]

Requeued(pass, S, cad, a, Q) ==
  [gf |-> S.gf, heap |-> S.heap, adj |-> S.adj,
   Q |-> IF Q = {} THEN initPriorityQueueWithDefects(pass, S.heap, cad, S.adj, Q) ELSE Q,
   accepted |-> TRUE, att |-> [a EXCEPT !.kind = "accepted", !.reseeded = (Q = {})]]

\* after the splice: old quads and inside vertices removed, duets and the
\* affected vertices queued, the queue seeded again when it is empty
AcceptSpliced(pass, S, cad, Q, a) ==
  Requeued(pass, S, cad, a,
           addAffectedVerticesToQueue(pass, S, cad, a.newIds,
                                      Q \cup DuetsOnBoundary(cad, S.adj, a.bnd)))

AcceptRemeshing(pass, S, cad, Q, a, alloc) ==
  AcceptSpliced(pass,
                RemoveVertices(RemoveElements(AddNewElements(S, alloc), a.quads, 1),
                               cad, a.inside, 1),
                cad, Q, a)

CancelledAttempt(S, Q, a) ==
  Unchanged(S, Q, [a EXCEPT !.kind = "rejected"])

CompareEnergies(pass, S, cad, Q, a, alloc) ==
  IF EnergyNotBetter(a.energy_after, a.energy_before)
  THEN CancelledAttempt(CancelRemeshing(S, alloc), Q, a)
  ELSE AcceptRemeshing(pass, S, cad, Q, a, alloc)

DecideAllocated(pass, S, cad, Q, a, alloc) ==
  IF vertexSupport(cad, a.v) = SURFACE /\ Len(a.bnd) = 4 /\ Len(a.quads) = 2
     /\ Len(alloc.newElements) # 2
  THEN AcceptRemeshing(pass, S, cad, Q,
                       [a EXCEPT !.duet = TRUE, !.newVertices = alloc.newVertices,
                                 !.newIds = alloc.newElements,
                                 !.newElements = ElementsVertices(alloc.heap, alloc.newElements)],
                       alloc)
  ELSE CompareEnergies(pass, S, cad, Q,
         [a EXCEPT !.newVertices = alloc.newVertices,
                   !.newIds = alloc.newElements,
                   !.newElements = ElementsVertices(alloc.heap, alloc.newElements),
                   !.energy_before =
                      irregularityEnergyOfCavity(a.bnd, a.bndIdealValence,
                                                 a.bndAllowedValenceRange, a.inside, a.oldElements),
                   !.energy_after =
                      irregularityEnergyOfCavity(a.bnd, a.bndIdealValence,
                                                 a.bndAllowedValenceRange, alloc.newVertices,
                                                 ElementsVertices(alloc.heap, alloc.newElements))],
         alloc)

\* S holds the objects remeshFewQuads allocated from here on
WithAllocated(pass, S, cad, Q, a, alloc) ==
  DecideAllocated(pass, [S EXCEPT !.heap = alloc.heap], cad, Q, a, alloc)

DecideCandidate(pass, S, cad, Q, a, cand) ==
  IF cand.status # 0
  THEN Unchanged(S, Q, [a EXCEPT !.kind = "nomatch", !.status = cand.status])
  ELSE WithAllocated(pass, S, cad, Q, a, Allocated(S.heap, cand))

WithSignature(pass, S, cad, Q, a, sig) ==
  IF sig.cancel THEN {Unchanged(S, Q, [a EXCEPT !.kind = "cancel"])}
  ELSE {DecideCandidate(pass, S, cad, Q,
                        [a EXCEPT !.bndIdealValence = sig.bndIdealValence,
                                  !.bndAllowedValenceRange = sig.bndAllowedValenceRange,
                                  !.inside = verticesStrictlyInsideCavity(S.heap, a.quads, a.bnd)],
                        cand) :
          cand \in UNION {remeshFewQuads(a.bnd, c) : c \in FreshVertices(S.heap, cad)}
                     \cup UNION {remeshFewQuadsInThree(a.bnd, p[1], p[2]) :
                                   p \in FreshPairs(S.heap, cad)}}

WithBoundary(pass, S, cad, Q, a, okb, bnd) ==
  IF ~okb \/ Len(bnd) < 4 THEN {Unchanged(S, Q, [a EXCEPT !.kind = "noboundary"])}
  ELSE WithSignature(pass, S, cad, Q, [a EXCEPT !.bnd = bnd],
                     CavitySignature(cad, S.adj, vertexSupport(cad, a.v), a.quads, bnd))

WithBuiltBoundary(pass, S, cad, Q, a, b) ==
  WithBoundary(pass, S, cad, Q, a, b.ok, DropRepeatedEnd(b.bnd))

WithProperties(pass, S, cad, Q, a, p) ==
  IF ~p.toRemesh THEN {Unchanged(S, Q, [a EXCEPT !.kind = "nodefect"])}
  ELSE WithBuiltBoundary(pass, S, cad, Q,
                         [a EXCEPT !.quads = p.quads,
                                   !.oldElements = ElementsVertices(S.heap, p.quads)],
                         buildBoundary(S.heap, p.quads))

\* one iteration of the while loop on the popped vertex v, Q being the queue
\* after the pop: the set of its possible results.  v->getNum() is read
\* before adj is searched for v: dangling tells that the object had been
\* deleted
RepairOutcomes(pass, S, cad, Q, v) ==
  IF v \notin DOMAIN S.adj
  THEN {Unchanged(S, Q, [NoAttempt EXCEPT !.kind = "gone", !.v = v,
                                           !.dangling = (v \notin S.heap.vert)])}
  ELSE WithProperties(pass, S, cad, Q,
                      [NoAttempt EXCEPT !.v = v, !.dangling = (v \notin S.heap.vert)],
                      remeshableVertexProperties(S.heap, cad, v, S.adj))

(***************************************************************************)
(* The faces of a model repaired in parallel: improveQuadMeshTopology      *)
(*                                                                         *)
(* ents maps a CAD corner or curve to [kind, mesh_vertices, faces, seam]:  *)
(* its list of mesh vertices, the faces it bounds or lies in, and the      *)
(* faces it is a seam of.                                                  *)
(***************************************************************************)

\* removeVertex on a vertex of a curve or of a corner: ge->mesh_vertices or
\* gv->mesh_vertices loses v
eraseFromEntity(ents, v) ==
  [en \in DOMAIN ents |-> [ents[en] EXCEPT !.mesh_vertices = EraseFirst(@, v)]]

RECURSIVE EraseFromEntities(_, _, _)
EraseFromEntities(ents, inside, k) ==
  IF k > Len(inside) THEN ents
  ELSE EraseFromEntities(eraseFromEntity(ents, inside[k]), inside, k + 1)

\* ge->isSeam(gf) && ge->faces().size() == 1 && ge->faces()[0] == gf
SeamsOfFaceAlone(ents, f) ==
  {en \in DOMAIN ents : /\ ents[en].kind = CURVE
                        /\ f \in ents[en].seam
                        /\ ents[en].faces = {f}}

(* the loop over ge->mesh_vertices of one seam: nv is allocated, pushed to  *)
(* gf->mesh_vertices and recorded in old2new, then ov is deleted; T holds   *)
(* gf, heap, ents and old2new                                               *)
RECURSIVE TransferVertices(_, _, _, _)
TransferVertices(T, cad, en, k) ==
  IF k > Len(T.ents[en].mesh_vertices)
  THEN {[T EXCEPT !.ents[en].mesh_vertices = <<>>]}
  ELSE UNION {TransferVertices(
                [T EXCEPT !.gf.mesh_vertices = Append(@, nv),
                          !.heap.vert = (@ \cup {nv}) \ {T.ents[en].mesh_vertices[k]},
                          !.old2new = [ov \in (DOMAIN @) \cup {T.ents[en].mesh_vertices[k]} |->
                                         IF ov = T.ents[en].mesh_vertices[k] THEN nv
                                         ELSE @[ov]]],
                cad, en, k + 1) : nv \in FreshVertices(T.heap, cad)}

RECURSIVE TransferSeams(_, _, _)
TransferSeams(Ts, cad, seams) ==
  IF seams = {} THEN Ts
  ELSE TransferSeams(UNION {TransferVertices(T, cad, MinOf(seams), 1) : T \in Ts},
                     cad, seams \ {MinOf(seams)})

\* f->setVertex(lv, it->second) on the quads of the face
SetVertices(T) ==
  [gf |-> T.gf,
   heap |-> [T.heap EXCEPT !.elem =
               [q \in DOMAIN @ |->
                  IF q \in Range(T.gf.quadrangles)
                  THEN [lv \in 1 .. 4 |-> IF @[q][lv] \in DOMAIN T.old2new
                                          THEN T.old2new[@[q][lv]] ELSE @[q][lv]]
                  ELSE @[q]]],
   ents |-> T.ents]

\* transferSeamGEdgesVerticesToGFace(gf): the face, the heap and the
\* entities after the call
transferSeamGEdgesVerticesToGFace(f, gff, heap, cad, ents) ==
  {SetVertices(T) :
     T \in TransferSeams({[gf |-> gff, heap |-> heap, ents |-> ents, old2new |-> <<>>]},
                         cad, SeamsOfFaceAlone(ents, f))}

(***************************************************************************)
(* Gardener::growMaximal and what it calls                                 *)
(*                                                                         *)
(* cad.onWhat tells which MVertex lies on a CAD corner (GVertex); patterns *)
(* is the template database of the disk quadrangulation library.           *)
(***************************************************************************)

(* MeshHalfEdges::vertexHalfEdges: the half-edges that end at v, by turns   *)
(* with opposite(next(he)); at a half-edge without opposite the list is     *)
(* restarted from he_bdr = next(he) and unrolled with opposite(prev(he)).   *)
RECURSIVE HesTurn(_, _, _, _)
HesTurn(M, v, he, hes) ==
  LET pushed == Append(hes, he)
      cand == opposite(M, next(M, he))
  IN IF cand = NO_ID THEN [he_bdr |-> next(M, he), hes |-> pushed]
     ELSE IF cand = At(M.vertices, v).he THEN [he_bdr |-> NO_ID, hes |-> pushed]
     ELSE HesTurn(M, v, cand, pushed)

RECURSIVE HesUnroll(_, _, _, _)
HesUnroll(M, v, he, hes) ==
  LET pushed == Append(hes, he)
      he2 == opposite(M, prev(M, he))
  IN IF he2 # At(M.vertices, v).he /\ he2 # NO_ID
     THEN HesUnroll(M, v, he2, pushed)
     ELSE pushed

vertexHalfEdges(M, v) ==
  LET t == HesTurn(M, v, At(M.vertices, v).he, <<>>)
  IN IF t.he_bdr = NO_ID THEN t.hes ELSE HesUnroll(M, v, t.he_bdr, <<>>)

\* dynamic_cast<GVertex*>(ptr->onWhat()) != NULL
onGVertex(cad, ptr) == ptr \in DOMAIN cad.onWhat /\ cad.onWhat[ptr] = CORNER

\* the flagged vertices on the cavity boundary and the concave CAD corners
FlipLimits(M, G, cad) ==
  G.singsBdr \cup {v \in G.irregular :
                     /\ G.vOnBoundary[v]
                     /\ G.valence[v] > 2
                     /\ onGVertex(cad, At(M.vertices, v).ptr)}

\* iInit for the limit vertex bs: the position in hes of the first half-edge
\* around bs that has an opposite and lies, or whose opposite lies, in hes
LimitStart(M, cav, bs) ==
  LET hesOnLimit == vertexHalfEdges(M, bs)
      hit(k) == /\ opposite(M, hesOnLimit[k]) # NO_ID
                /\ \/ hesOnLimit[k] \in Range(cav.hes)
                   \/ opposite(M, hesOnLimit[k]) \in Range(cav.hes)
      hits == {k \in 1 .. Len(hesOnLimit) : hit(k)}
  IN IF hits = {} THEN NO_ID
     ELSE LET he == hesOnLimit[MinOf(hits)]
          IN IF he \in Range(cav.hes) THEN Find(cav.hes, he)
             ELSE Find(cav.hes, opposite(M, he))

\* the walks from iInit: forwards until a tip, backwards until an origin,
\* with one face outside or one face inside the cavity, at most once around
ForbiddenFrom(M, G, cav, iInit) ==
  LET n == Len(cav.hes)
      stops(v) == G.valence[v] - G.valenceInCavity[v] = 1 \/ G.valenceInCavity[v] = 1
      fwd(l) == At(cav.hes, (iInit + l) % n)
      bwd(l) == At(cav.hes, (iInit + n - l) % n)
  IN {fwd(l) : l \in {x \in 0 .. (n - 1) :
                        \A m \in 0 .. (x - 1) : ~stops(vertex(M, fwd(m), 1))}}
     \cup
     {bwd(l) : l \in {x \in 0 .. (n - 1) :
                        \A m \in 0 .. (x - 1) : ~stops(vertex(M, bwd(m), 0))}}

(* getFlipHalfEdgeCandidates: the entries of hes that have an opposite and, *)
(* when there are limits, are not forbidden; false when a limit vertex has  *)
(* no half-edge on the cavity boundary.                                     *)
getFlipHalfEdgeCandidates(M, G, cav, cad) ==
  LET limits == FlipLimits(M, G, cad)
      inner == {k \in 1 .. Len(cav.hes) : opposite(M, cav.hes[k]) # NO_ID}
      keep(S) == [j \in 1 .. Cardinality(S) |->
                    cav.hes[CHOOSE k \in S : Cardinality({x \in S : x < k}) = j - 1]]
  IN IF limits = {} THEN [ok |-> TRUE, candidates |-> keep(inner)]
     ELSE IF \E bs \in limits : LimitStart(M, cav, bs) = NO_ID
     THEN [ok |-> FALSE, candidates |-> <<>>]
     ELSE LET forbidden == UNION {ForbiddenFrom(M, G, cav, LimitStart(M, cav, bs)) :
                                    bs \in limits}
          IN [ok |-> TRUE,
              candidates |-> keep({k \in inner : cav.hes[k] \notin forbidden})]

\* isConvex: no vertex off the face boundary with one face left outside
isConvex(M, G, cav) ==
  \A i \in Idx(cav.hes) :
     LET v == At(M.hedges, At(cav.hes, i)).vertex
     IN ~(~G.vOnBoundary[v] /\ G.valence[v] - G.valenceInCavity[v] = 1)

NoPattern == 0 - 1

(* patchIsRemeshableWithQuadPattern(Ncorners, npts): found and the          *)
(* irregularity score of the template stored for that key; the databases    *)
(* considered score a key by its number of corners.                         *)
patchIsRemeshableWithQuadPattern(patterns, Ncorners, npts) ==
  IF Ncorners \in DOMAIN patterns /\ patterns[Ncorners] # NoPattern
  THEN [found |-> TRUE, irregularityMeasure |-> patterns[Ncorners]]
  ELSE [found |-> FALSE, irregularityMeasure |-> DBL_MAX]

(* cavityIsRemeshable: false when side and hes differ in length or when a   *)
(* side number reaches 5; npts[s] is the number of entries of side s plus 1 *)
cavityIsRemeshable(patterns, cav) ==
  IF Len(cav.hes) # Len(cav.side)
  THEN [meshable |-> FALSE, irregularityMeasure |-> DBL_MAX]
  ELSE IF \E k \in 1 .. Len(cav.side) : cav.side[k] >= 5
  THEN [meshable |-> FALSE, irregularityMeasure |-> DBL_MAX]
  ELSE LET Ncorners == IF cav.side = <<>> THEN 0
                       ELSE 1 + MaxOf(Range(cav.side))
           npts == [s \in 1 .. Ncorners |->
                      1 + Cardinality({k \in 1 .. Len(cav.side) : cav.side[k] = s - 1})]
           p == patchIsRemeshableWithQuadPattern(patterns, Ncorners, npts)
       IN [meshable |-> p.found, irregularityMeasure |-> p.irregularityMeasure]

\* the test made on a cavity that is convex after a turn of growMaximal; the
\* snapshot lastCav = cav is taken when the last conjunct holds
IrregularityOfCavity(M, G, cav) ==
  LET oc == {v \in G.irregular : valenceInsideQuads(M, cav.quads, v) > 2}
      sq(v) == (valenceInsideQuads(M, cav.quads, v) - 4)
                 * (valenceInsideQuads(M, cav.quads, v) - 4)
      vals == [v \in oc \cup G.sings |-> sq(v)]
      terms(S) == [j \in 1 .. Cardinality(S) |->
                     vals[CHOOSE v \in S : Cardinality({x \in S : x < v}) = j - 1]]
  IN [nbi_oc |-> Cardinality(oc),
      currentCavityIrregularity |-> SeqSum(terms(oc)) + SeqSum(terms(G.sings))]

\* irreg <= lastIrregularity, the test that keeps the best score seen
NotWorseThanLast(irreg, lastIrregularity) == irreg <= lastIrregularity

SnapshotTaken(s, cav2, nbi, irreg) ==
  [s EXCEPT !.cav = cav2,
            !.G = [s.G EXCEPT !.lastCav = cav2, !.lastNbIrregular = nbi,
                              !.lastIrregularity = irreg],
            !.snaps = Append(s.snaps, cav2)]

SnapshotDecide(s, cav2, nbi, ir, r) ==
  IF ir.nbi_oc = 0 THEN [s EXCEPT !.cav = cav2]
  ELSE IF /\ r.meshable
          /\ NotWorseThanLast(r.irregularityMeasure, s.G.lastIrregularity)
          /\ r.irregularityMeasure < ir.currentCavityIrregularity
       THEN SnapshotTaken(s, cav2, nbi, r.irregularityMeasure)
       ELSE [s EXCEPT !.cav = cav2]

\* tests keeps, for every cavity that reaches the test on nsides, its quads,
\* nsides and whether it passed the test
SnapshotSides(M, patterns, s, nbi, u, cav2) ==
  IF u.nsides # s.G.cavityTargetNbOfSides
  THEN [s EXCEPT !.cav = cav2,
                 !.tests = Append(@, [quads |-> cav2.quads, nsides |-> u.nsides,
                                      passed |-> FALSE])]
  ELSE SnapshotDecide([s EXCEPT !.tests = Append(@, [quads |-> cav2.quads,
                                                     nsides |-> u.nsides,
                                                     passed |-> TRUE])],
                      cav2, nbi, IrregularityOfCavity(M, s.G, cav2),
                      cavityIsRemeshable(patterns, cav2))

\* the end of a turn whose cavity is convex
Snapshot(M, patterns, s, u) ==
  IF Cardinality(s.G.irregular) <= s.G.lastNbIrregular THEN s
  ELSE SnapshotSides(M, patterns, s, Cardinality(s.G.irregular), u,
                     [s.cav EXCEPT !.side = u.side])

(* the for loop over the candidates of one turn: candidate k is looked up   *)
(* in the current hes, flipped with rejectNewSings = true, and after a flip *)
(* the new quad is marked and the cavity made convex again                  *)
RECURSIVE CandLoop(_, _, _, _)
RECURSIVE CandFlip(_, _, _, _, _)
RECURSIVE CandMark(_, _, _, _, _, _)
RECURSIVE CandConvex(_, _, _, _, _)
CandLoop(M, s, candidates, k) ==
  IF k > Len(candidates) THEN s
  ELSE IF NotFound(s.cav.hes, candidates[k]) THEN CandLoop(M, s, candidates, k + 1)
  ELSE CandFlip(M, s, candidates, k,
                growByFlip(M, s.cav, Find(s.cav.hes, candidates[k]), TRUE))

CandFlip(M, s, candidates, k, r) ==
  IF r.undefined THEN [s EXCEPT !.cav = r.cav, !.status = "undefined"]
  ELSE IF r.diverges THEN [s EXCEPT !.cav = r.cav, !.status = "diverges"]
  ELSE IF ~r.ret THEN CandLoop(M, [s EXCEPT !.cav = r.cav], candidates, k + 1)
  ELSE CandMark(M, s, candidates, k, r.cav, markNewQuad(M, s.G, r.nq))

CandMark(M, s, candidates, k, cav, m) ==
  IF m.aborted THEN [s EXCEPT !.cav = cav, !.G = m.G, !.status = "aborted"]
  ELSE CandConvex(M, s, candidates, k, convexify(M, m.G, cav))

CandConvex(M, s, candidates, k, c) ==
  IF c.status # "ok" THEN [s EXCEPT !.cav = c.cav, !.G = c.G, !.status = c.status]
  ELSE CandLoop(M, [s EXCEPT !.cav = c.cav, !.G = c.G, !.running = TRUE,
                             !.flipped = @ + 1,
                             !.grew = @ /\ Cardinality(c.cav.quads)
                                             > Cardinality(s.cav.quads)],
                candidates, k + 1)

\* the turns of the while loop
RECURSIVE GrowTurn(_, _, _, _)
RECURSIVE GrowCandidates(_, _, _, _, _)
RECURSIVE AfterCandidates(_, _, _, _)
GrowTurn(M, patterns, cad, s) ==
  GrowCandidates(M, patterns, cad, [s EXCEPT !.turns = @ + 1],
                 getFlipHalfEdgeCandidates(M, s.G, s.cav, cad))

GrowCandidates(M, patterns, cad, s, c) ==
  IF ~c.ok THEN [s EXCEPT !.running = FALSE]
  ELSE AfterCandidates(M, patterns, cad,
                       CandLoop(M, [s EXCEPT !.running = FALSE], c.candidates, 1))

AfterCandidates(M, patterns, cad, s) ==
  IF s.status # "ok" \/ ~s.running THEN s
  ELSE IF ~isConvex(M, s.G, s.cav) THEN [s EXCEPT !.running = FALSE]
  ELSE GrowTurn(M, patterns, cad, Snapshot(M, patterns, s, updateSides(M, s.cav)))

\* the statements after the while loop without cav = lastCav
GrowReturnAsGrown(M, s) ==
  [ret |-> s.status = "ok" /\ s.G.lastNbIrregular > 0
             /\ ~(/\ Len(M.faces) = Cardinality(s.cav.quads)
                  /\ s.G.lastNbIrregular = s.G.cavityTargetNbOfSides),
   cav |-> s.cav, G |-> s.G, status |-> s.status, snaps |-> s.snaps,
   grown |-> s.cav, tests |-> s.tests, turns |-> s.turns, flipped |-> s.flipped,
             grew |-> s.grew]

\* the statements after the while loop
GrowReturn(M, s) ==
  IF s.status # "ok" THEN [ret |-> FALSE, cav |-> s.cav, G |-> s.G,
                           status |-> s.status, snaps |-> s.snaps, grown |-> s.cav,
                           tests |-> s.tests, turns |-> s.turns,
                           flipped |-> s.flipped, grew |-> s.grew]
  ELSE IF s.G.lastNbIrregular > 0
  THEN IF /\ Len(M.faces) = Cardinality(s.cav.quads)
          /\ s.G.lastNbIrregular = s.G.cavityTargetNbOfSides
       THEN [ret |-> FALSE, cav |-> s.cav, G |-> s.G,
             status |-> "ok", snaps |-> s.snaps, grown |-> s.cav,
             tests |-> s.tests, turns |-> s.turns, flipped |-> s.flipped,
             grew |-> s.grew]
       ELSE [ret |-> TRUE, cav |-> s.G.lastCav, G |-> s.G,
             status |-> "ok", snaps |-> s.snaps, grown |-> s.cav,
             tests |-> s.tests, turns |-> s.turns, flipped |-> s.flipped,
             grew |-> s.grew]
  ELSE [ret |-> FALSE, cav |-> s.cav, G |-> s.G,
        status |-> "ok", snaps |-> s.snaps, grown |-> s.cav,
        tests |-> s.tests, turns |-> s.turns, flipped |-> s.flipped,
             grew |-> s.grew]

(* growMaximal: ret, the caller's cavity and the Gardener after the call,   *)
(* the snapshots taken during the call, the cavity as grown, the cavities   *)
(* tested on their number of sides, the turns of the while loop, the        *)
(* candidates flipped and whether each of them left more quads in the       *)
(* cavity                                                                   *)
growMaximal(M, patterns, cad, G, cav) ==
  IF ~G.current
  THEN [ret |-> FALSE, cav |-> cav, G |-> G, status |-> "ok", snaps |-> <<>>,
        grown |-> cav, tests |-> <<>>, turns |-> 0, flipped |-> 0, grew |-> TRUE]
  ELSE GrowReturn(M, GrowTurn(M, patterns, cad,
                              [cav |-> cav, G |-> G, running |-> TRUE,
                               status |-> "ok", snaps |-> <<>>, tests |-> <<>>,
                               turns |-> 0, flipped |-> 0, grew |-> TRUE]))

(***************************************************************************)
(* remeshCavityWithQuadPatterns and the loop of                            *)
(* remeshCavitiesAroundSingularities that calls it                         *)
(***************************************************************************)

\* the vertices pushed on sides[sd] by the walk over hes that starts at i0
SideWalk(M, cav, i0, sd) ==
  LET n == Len(cav.hes)
      on == SelectSeq([i \in 1 .. n |-> (i0 + i - 1) % n], LAMBDA pos : At(cav.side, pos) = sd)
  IN IF on = <<>> THEN <<>>
     ELSE <<At(M.vertices, vertex(M, At(cav.hes, on[1]), 0)).ptr>>
          \o [k \in 1 .. Len(on) |-> At(M.vertices, vertex(M, At(cav.hes, on[k]), 1)).ptr]

(* sides: the walk starts at the first position whose side differs from the *)
(* side before it; with no such position the sides are filled from position *)
(* 0 when every side number is 0 and are left empty otherwise               *)
CavitySides(M, cav) ==
  LET n == Len(cav.hes)
      starts == {i0 \in 0 .. (n - 1) : At(cav.side, i0) # At(cav.side, (i0 + n - 1) % n)}
      smax == MaxOf(Range(cav.side))
  IN IF n = 0 THEN <<>>
     ELSE IF starts # {}
     THEN LET i0 == CHOOSE i \in starts : \A j \in starts : i <= j
          IN [s \in 1 .. (smax + 1) |-> SideWalk(M, cav, i0, s - 1)]
     ELSE IF smax < 1 THEN <<SideWalk(M, cav, 0, 0)>>
     ELSE <<>>

(* remeshCavityWithQuadPatterns(gf, cav, newSingularities): ext is what     *)
(* remeshPatchWithQuadPattern did, its status, the elements and vertices it *)
(* added to the face and the irregular ones among these vertices.  The      *)
(* function ends with return 1 when the status is not 0 and with return     *)
(* true otherwise, meshable or not.                                         *)
remeshCavityWithQuadPatterns(M, patterns, gff, heap, cav, ext) ==
  LET sides == CavitySides(M, cav)
      sideSizes == [i \in 1 .. Len(sides) |-> Len(sides[i])]
      Ncorners == Len(sideSizes)
      meshable == patchIsRemeshableWithQuadPattern(patterns, Ncorners, sideSizes).found
      quads == [k \in 1 .. Cardinality(cav.quads) |-> At(M.faces, SortSet(cav.quads)[k]).ptr]
      bnd == buildBoundary(heap, quads).bnd
      inside == verticesStrictlyInsideCavity(heap, quads, bnd)
      same == [ret |-> TRUE, meshable |-> meshable, called |-> meshable, gf |-> gff,
               heap |-> heap, newSingularities |-> <<>>]
  IN IF ~meshable THEN same
     ELSE IF ext.status # 0 THEN same
     ELSE [ret |-> TRUE, meshable |-> TRUE, called |-> TRUE,
           gf |-> [quadrangles |->
                      SelectSeq(gff.quadrangles \o ext.newElements,
                                LAMBDA q : q \notin Range(quads)),
                   mesh_vertices |->
                      SelectSeq(gff.mesh_vertices \o ext.newVertices,
                                LAMBDA v : v \notin Range(inside))],
           heap |-> [heap EXCEPT !.elem = [q \in (DOMAIN heap.elem) \ Range(quads) |-> heap.elem[q]],
                                 !.vert = (@ \ Range(inside)) \cup Range(ext.newVertices)],
           newSingularities |->
              IF Len(ext.irregular) = 1 /\ Ncorners \in {3, 5} THEN ext.irregular ELSE <<>>]

(***************************************************************************)
(* Inputs: the quad lists a face may hold                                  *)
(***************************************************************************)

\* largest number of quads along a side of a structured input patch
MaxGrid == 3
\* number of distinct mesh vertices that unstructured input quads draw from
NumMV == 4
\* largest number of quads of an unstructured input list
MaxFreeQuads == 3
\* largest number of quads around one edge in a fan input
MaxFan == 4

\* an nx by ny structured patch, quads counter-clockwise, row by row
GridQuads(nx, ny) ==
  [k \in 1 .. (nx * ny) |->
     LET i == (k - 1) % nx
         j == (k - 1) \div nx
         id(a, b) == 1 + a + b * (nx + 1)
     IN <<id(i, j), id(i + 1, j), id(i + 1, j + 1), id(i, j + 1)>>]

Grids == {GridQuads(nx, ny) : nx \in 1 .. MaxGrid, ny \in 1 .. MaxGrid}

\* n quads that all use the edge {1,2}, quad k turned over when flip[k]:
\* non-manifold from n = 3 on, consistently oriented when two quads differ
FanQuads(n, flip) ==
  [k \in 1 .. n |->
     IF flip[k] THEN <<2, 1, 2 * k + 1, 2 * k + 2>>
     ELSE <<1, 2, 2 * k + 1, 2 * k + 2>>]

Fans == UNION {{FanQuads(n, flip) : flip \in [1 .. n -> BOOLEAN]} : n \in 1 .. MaxFan}

\* quads on distinct vertices of 1..NumMV starting at their smallest vertex,
\* in both orientations
FreeQuad ==
  {q \in [1 .. 4 -> 1 .. NumMV] :
     /\ \A a, b \in 1 .. 4 : a # b => q[a] # q[b]
     /\ \A a \in 2 .. 4 : q[1] < q[a]}

QuadKey(q) == ((q[1] * (NumMV + 1) + q[2]) * (NumMV + 1) + q[3]) * (NumMV + 1) + q[4]

QuadListInputs == Grids \cup Fans \cup {<<>>}

(***************************************************************************)
(* Inputs of the cavity operations: the meshes, the flagged vertices, the  *)
(* seeds                                                                   *)
(***************************************************************************)

\* number of quads along a side of the structured mesh cavities grow in
CavGrid == 3
\* number of quads along a side of each patch around an irregular vertex
StarSize == 1
\* largest length of a seed given as a free list of faces
MaxSeed == 2
\* largest number of quads of a cavity grown flip by flip
MaxCavQuads == 6
\* largest argument of growIsotropic
MaxGrowN == 5

\* k patches of n by n quads around one vertex of valence k (MVertex 1),
\* quads counter-clockwise; patch p lies between spoke p and spoke p + 1
StarQuads(k, n) ==
  [q \in 1 .. (k * n * n) |->
     LET p == (q - 1) \div (n * n)
         i == ((q - 1) % (n * n)) % n
         j == ((q - 1) % (n * n)) \div n
         id(a, b) == IF a = 0 /\ b = 0 THEN 1
                     ELSE IF b = 0 THEN 1 + p * n + a
                     ELSE IF a = 0 THEN 1 + ((p + 1) % k) * n + b
                     ELSE 1 + k * n + p * n * n + (a - 1) + (b - 1) * n + 1
     IN <<id(i, j), id(i + 1, j), id(i + 1, j + 1), id(i, j + 1)>>]

\* the six quads of a closed surface (a box), oriented outwards
CubeQuads ==
  << <<1, 4, 3, 2>>, <<5, 6, 7, 8>>, <<1, 2, 6, 5>>,
     <<2, 3, 7, 6>>, <<3, 4, 8, 7>>, <<4, 1, 5, 8>> >>

CavMeshes ==
  {GridQuads(CavGrid, CavGrid), StarQuads(3, StarSize), StarQuads(5, 1), CubeQuads}

\* the vertices singularVerticesFromFloatingSingularities can return: on no
\* border edge of the face and used by three or by five quads
QuadEdges(q) == {{q[a], q[(a % 4) + 1]} : a \in 1 .. 4}

IrregularInside(quadrangles) ==
  LET mvs == UNION {Range(quadrangles[f]) : f \in 1 .. Len(quadrangles)}
      users(e) == {f \in 1 .. Len(quadrangles) : e \in QuadEdges(quadrangles[f])}
      onBorder(mv) == \E f \in 1 .. Len(quadrangles) :
                        \E e \in QuadEdges(quadrangles[f]) :
                          mv \in e /\ Cardinality(users(e)) = 1
      val(mv) == Cardinality({f \in 1 .. Len(quadrangles) : mv \in Range(quadrangles[f])})
  IN {mv \in mvs : ~onBorder(mv) /\ val(mv) \in {3, 5}}

\* no flagged vertex, or one: the first of them
SingularChoices(quadrangles) ==
  LET irr == IrregularInside(quadrangles)
  IN {{}} \cup {{mv} : mv \in {x \in irr : \A y \in irr : x <= y}}

\* the seeds: the faces around a vertex (vertexFaces, as the callers of init
\* build them), free lists of distinct faces, and all the faces but one
SeedsOf(M) ==
  LET F == Idx(M.faces)
  IN UNION {
       {vertexFaces(M, v) : v \in Idx(M.vertices)},
       UNION {{s \in [1 .. n -> F] : \A a, b \in 1 .. n : a # b => s[a] # s[b]} :
                n \in 1 .. MaxSeed},
       {LET rest == F \ {f}
        IN [k \in 1 .. Cardinality(rest) |->
              CHOOSE g \in rest : Cardinality({h \in rest : h < g}) = k - 1] : f \in F}}

(***************************************************************************)
(* Inputs of remeshSmallDefects: small faces with their CAD classes and    *)
(* corner angles                                                           *)
(***************************************************************************)
MaxRepairs == 3
\* largest number of quads of the face and largest vertex address in SpecRSDLive
MaxLiveQuads == 3
MaxLiveVertex == 7
\* largest number of entries of the queue in SpecRSDLive
MaxLiveQueue == 3


\* a square cut in two quads around an inside vertex of valence 2; corner 1
\* has an angle of a quarter turns (0 for an angle below 45 degrees)
DuetFace(a, b) ==
  [quads |-> <<<<1, 2, 3, 5>>, <<1, 5, 3, 4>>>>,
   onWhat |-> [v \in 1 .. 4 |-> CORNER],
   vAngle |-> [v \in 1 .. 4 |-> IF v = 1 THEN a ELSE IF v = 3 THEN b ELSE 1]]

\* a square cut in three quads around two inside vertices of valence 2
TwoDuetFace ==
  [quads |-> <<<<1, 2, 3, 5>>, <<1, 5, 3, 6>>, <<1, 6, 3, 4>>>>,
   onWhat |-> [v \in 1 .. 4 |-> CORNER],
   vAngle |-> [v \in 1 .. 4 |-> IF v \in {1, 3} THEN 3 ELSE 1]]

\* three quads around vertex 1 of a straight curve
FanFace ==
  [quads |-> <<<<1, 2, 3, 4>>, <<1, 4, 5, 6>>, <<1, 6, 7, 8>>>>,
   onWhat |-> [v \in 1 .. 8 |-> IF v \in {3, 7} THEN CORNER ELSE CURVE],
   vAngle |-> [v \in 1 .. 8 |-> IF v \in {3, 5, 7} THEN 1 ELSE 2]]

\* the 2 x 2 grid, its corner 1 of angle a
GridFace(a) ==
  [quads |-> <<<<1, 2, 5, 4>>, <<2, 3, 6, 5>>, <<4, 5, 8, 7>>, <<5, 6, 9, 8>>>>,
   onWhat |-> [v \in {1, 2, 3, 4, 6, 7, 8, 9} |-> IF v \in {1, 3, 7, 9} THEN CORNER ELSE CURVE],
   vAngle |-> [v \in {1, 2, 3, 4, 6, 7, 8, 9} |->
                 IF v = 1 THEN a ELSE IF v \in {3, 7, 9} THEN 1 ELSE 2]]

\* five quads: a duet around the inside vertex 8, between the inside vertex 7
\* of valence 2 and the inside vertex 9 of valence 3
NestedDuetFace ==
  [quads |-> <<<<1, 7, 3, 8>>, <<1, 8, 3, 9>>, <<3, 7, 1, 2>>, <<1, 9, 5, 6>>,
               <<9, 3, 4, 5>>>>,
   onWhat |-> [v \in 1 .. 6 |-> IF v = 5 THEN CURVE ELSE CORNER],
   vAngle |-> [v \in 1 .. 6 |-> IF v \in {1, 3} THEN 4 ELSE IF v = 5 THEN 2 ELSE 1]]

\* the faces of SpecRSDLive
LiveFaces == {DuetFace(2, 2), TwoDuetFace, FanFace}

RepairFaces ==
  {DuetFace(a, b) : a \in 0 .. 2, b \in 1 .. 2} \cup {TwoDuetFace, FanFace, NestedDuetFace}
    \cup {GridFace(a) : a \in 1 .. 2}

(***************************************************************************)
(* Inputs of growMaximal: a face holding a vertex of valence 3 next to a   *)
(* pair of vertices of valence 3 and 5, the template databases, the CAD    *)
(* corners, the seeds                                                      *)
(***************************************************************************)

\* largest number of cavities tried with one Gardener
MaxCavities == 2

(* Three quads around vertex 1 with two more along one side, and six quads  *)
(* around the edge 11-12 (valence 5 and 3); the two parts share the edge    *)
(* 8-9.                                                                     *)
PairQuads ==
  << <<1, 2, 5, 3>>, <<1, 3, 6, 4>>, <<1, 4, 7, 2>>,
     <<3, 5, 8, 9>>, <<6, 3, 9, 10>>,
     <<11, 12, 16, 13>>, <<11, 13, 17, 9>>, <<11, 9, 8, 14>>,
     <<11, 14, 18, 15>>, <<11, 15, 19, 12>>, <<12, 19, 20, 16>> >>

(* Two quads around vertex 3, which no other quad uses, and a third quad    *)
(* along the side 1-2                                                       *)
DuetQuads == << <<1, 2, 3, 4>>, <<3, 2, 5, 4>>, <<2, 1, 6, 7>> >>

GrowMeshes == {PairQuads, GridQuads(CavGrid, CavGrid), DuetQuads}

\* the flagged vertices: none, or one vertex off the face boundary that three
\* or five quads use
GrowSingularChoices(quads) == {{}} \cup {{mv} : mv \in IrregularInside(quads)}

\* the vertices on CAD corners: none, or the vertices of the face boundary
\* that more than three quads use
GrowCornerChoices(quads) ==
  LET val(mv) == Cardinality({f \in 1 .. Len(quads) : mv \in Range(quads[f])})
      mvs == UNION {Range(quads[f]) : f \in 1 .. Len(quads)}
      users(e) == {f \in 1 .. Len(quads) : e \in QuadEdges(quads[f])}
      onBorder(mv) == \E f \in 1 .. Len(quads) :
                        \E e \in QuadEdges(quads[f]) :
                          mv \in e /\ Cardinality(users(e)) = 1
  IN {{}, {mv \in mvs : onBorder(mv) /\ val(mv) > 3}}

\* the template databases: for 3, 4 and 5 corners no template or a score
PatternDatabases ==
  {[n \in 3 .. 5 |-> IF n = 3 THEN a ELSE IF n = 4 THEN b ELSE c] :
     a \in {NoPattern, 0, 1}, b \in {NoPattern, 0, 1}, c \in {NoPattern, 0}}

\* the seeds of the callers: the faces around a vertex off the face boundary,
\* or one face
GrowSeeds(M, G) ==
  {vertexFaces(M, v) : v \in {x \in Idx(M.vertices) : ~G.vOnBoundary[x]}}
  \cup {<<f>> : f \in Idx(M.faces)}

(***************************************************************************)
(* Inputs of remeshCavitiesAroundSingularities: faces with vertices that   *)
(* three or five quads use, some of them in singularVertices, and what     *)
(* remeshPatchWithQuadPattern does when it is called                       *)
(***************************************************************************)

\* largest number of elements remeshPatchWithQuadPattern adds to the face
MaxNewQuads == 2

RemeshMeshes == {PairQuads, StarQuads(5, StarSize)}

\* singularVertices: vertices off the face boundary that three or five quads use
RemeshSingularChoices(quads) == (SUBSET IrregularInside(quads)) \ {{}}

(* remeshPatchWithQuadPattern: a status that is not 0 and a face left as it *)
(* was, or status 0, new elements in gf->quadrangles and at most one new    *)
(* vertex in gf->mesh_vertices, irregular or not                            *)
PatchOutcomes(gff, heap) ==
  LET q0 == 1 + MaxOf(Range(gff.quadrangles) \cup {0})
      v0 == 1 + MaxOf(heap.vert \cup {0})
  IN {[status |-> 1, newElements |-> <<>>, newVertices |-> <<>>, irregular |-> <<>>]}
     \cup {[status |-> 0, newElements |-> [k \in 1 .. n |-> q0 + k - 1],
            newVertices |-> nv[1], irregular |-> nv[2]] :
             n \in 1 .. MaxNewQuads,
             nv \in {<< <<>>, <<>> >>, << <<v0>>, <<>> >>, << <<v0>>, <<v0>> >>}}

(***************************************************************************)
(* Inputs of orderedHalfEdgesFromStack: the stacks FCavity::init builds    *)
(***************************************************************************)

\* sides of the structured face the seeds are taken from
OrdNx == 3
OrdNy == 2
\* largest number of faces of a seed
MaxOrdSeed == 3

\* quadsInit: lists of distinct faces
OrdSeeds(M) ==
  UNION {{q \in [1 .. n -> Idx(M.faces)] : \A a, b \in 1 .. n : a # b => q[a] # q[b]} :
           n \in 1 .. MaxOrdSeed}

(***************************************************************************)
(* Inputs of improveQuadMeshTopology: models of two faces                  *)
(***************************************************************************)

ParFaces == {1, 2}

\* repairs a thread may accept
MaxParRepairs == 1

\* one corner or curve
Ent(kind, mesh_vertices, faces, seam) ==
  [kind |-> kind, mesh_vertices |-> mesh_vertices, faces |-> faces, seam |-> seam]

(* Face 1 is a strip with the corners 2, 3, 8 and 7, meshed by the four     *)
(* quads around vertex 5; 1 and 9 are corners in the middle of its long     *)
(* sides.  The line 4-5-6 across it is a curve lying in the face, and face  *)
(* 2, two quads, is bounded by that curve.  Corner 2 of face 1 spans a      *)
(* quarter turns.                                                           *)
FinModel(a) ==
  [quads |-> << <<1, 2, 5, 4>>, <<2, 3, 6, 5>>, <<4, 5, 8, 7>>, <<5, 6, 9, 8>>,
                <<4, 5, 11, 10>>, <<5, 6, 12, 11>> >>,
   faces |-> << [quadrangles |-> <<1, 2, 3, 4>>, mesh_vertices |-> <<>>],
                [quadrangles |-> <<5, 6>>, mesh_vertices |-> <<>>] >>,
   ents |-> << Ent(CURVE, <<5>>, {1, 2}, {}), Ent(CURVE, <<11>>, {2}, {}),
               Ent(CORNER, <<1>>, {1}, {}), Ent(CORNER, <<9>>, {1}, {}),
               Ent(CORNER, <<4>>, {1, 2}, {}), Ent(CORNER, <<6>>, {1, 2}, {}),
               Ent(CORNER, <<2>>, {1}, {}), Ent(CORNER, <<3>>, {1}, {}),
               Ent(CORNER, <<7>>, {1}, {}), Ent(CORNER, <<8>>, {1}, {}),
               Ent(CORNER, <<10>>, {2}, {}), Ent(CORNER, <<12>>, {2}, {}) >>,
   vAngle |-> << [v \in 1 .. 9 |-> IF v = 2 THEN a
                                   ELSE IF v \in {3, 7, 8} THEN 1
                                   ELSE IF v = 5 THEN 4 ELSE 2],
                 [v \in {4, 5, 6, 10, 11, 12} |-> IF v \in {5, 11} THEN 2 ELSE 1] >>]

(* Face 1 is a tube of two rows of three quads closed along the seam 1-4-7, *)
(* a curve of face 1 alone; face 2 is a row of three quads below the circle *)
(* 1-2-3, which the two faces share.                                        *)
TubeModel ==
  [quads |-> << <<1, 2, 5, 4>>, <<2, 3, 6, 5>>, <<3, 1, 4, 6>>,
                <<4, 5, 8, 7>>, <<5, 6, 9, 8>>, <<6, 4, 7, 9>>,
                <<10, 11, 2, 1>>, <<11, 12, 3, 2>>, <<12, 10, 1, 3>> >>,
   faces |-> << [quadrangles |-> <<1, 2, 3, 4, 5, 6>>, mesh_vertices |-> <<5, 6>>],
                [quadrangles |-> <<7, 8, 9>>, mesh_vertices |-> <<>>] >>,
   ents |-> << Ent(CURVE, <<4>>, {1}, {1}), Ent(CURVE, <<2, 3>>, {1, 2}, {}),
               Ent(CURVE, <<8, 9>>, {1}, {}), Ent(CURVE, <<11, 12>>, {2}, {}),
               Ent(CURVE, <<>>, {2}, {2}),
               Ent(CORNER, <<1>>, {1, 2}, {}), Ent(CORNER, <<7>>, {1}, {}),
               Ent(CORNER, <<10>>, {2}, {}) >>,
   vAngle |-> << [v \in {1, 2, 3, 4, 7, 8, 9} |-> IF v = 4 THEN 4 ELSE 2],
                 [v \in {1, 2, 3, 10, 11, 12} |-> 2] >>]

ParModels == {FinModel(2), TubeModel}

\* v->onWhat() for the vertices of corners and curves
OnWhatOf(ents) ==
  [v \in UNION {Range(ents[en].mesh_vertices) : en \in DOMAIN ents} |->
     ents[CHOOSE en \in DOMAIN ents : v \in Range(ents[en].mesh_vertices)].kind]

(***************************************************************************)
(* State                                                                   *)
(***************************************************************************)
VARIABLES
  quadrangles,       \* gf->quadrangles, each quad its four MVertex identities
  singularVertices,  \* the MVertex identities passed as singular
  M,                 \* the MeshHalfEdges structure
  ret,               \* <<r>> once createMeshHalfEdges returned r, <<>> before
  query,             \* the last read-only query and its result
  cav,               \* the FCavity: hes, side, quads
  G,                 \* the Gardener
  single,            \* the cavity was initialised with a single quad
  last,              \* the last cavity operation and what it returned
  patterns,          \* the template database of the quadrangulation library
  run,               \* "fresh", "ok", "closefailed" after a closing-hole flip
                     \* that failed, "rejected" once init returned false,
                     \* "aborted", "undefined", "diverges"
  gf,                \* the face under repair: quadrangles, mesh_vertices
  heap,              \* the live MElement and MVertex objects
  cad,               \* CAD class and angle of the corner and curve vertices
  adj,               \* the vertex -> quads adjacency map
  Q,                 \* the priority queue of the current pass
  ctl,               \* position in remeshSmallDefects: pc, pass, count[*],
                     \* iterations made, a repair accepted since the last seeding
  att                \* the last iteration of the repair loop

heVars == <<quadrangles, singularVertices, M, ret, query>>
cavVars == <<cav, G, single, last, run, patterns>>
rsdVars == <<gf, heap, cad, adj, Q, ctl, att>>
rsdVarsButCtl == <<gf, heap, cad, adj, Q, att>>
cavVarsButLast == <<cav, G, single, run, patterns>>
vars == <<quadrangles, singularVertices, M, ret, query, cav, G, single, last, run,
          patterns,
          gf, heap, cad, adj, Q, ctl, att>>

NoQuery == [op |-> "none"]

NoCall ==
  [op |-> "none", quadsInit |-> <<>>, ret |-> FALSE, reject |-> FALSE,
   config |-> "", why |-> "",
   changed |-> FALSE, n |-> 0, nb |-> 0, preQuads |-> {}, preLoop |-> FALSE]

\* no face is under repair
RepairIdle ==
  /\ gf = [quadrangles |-> <<>>, mesh_vertices |-> <<>>]
  /\ heap = [elem |-> <<>>, vert |-> {}]
  /\ cad = [onWhat |-> <<>>, vAngle |-> <<>>]
  /\ adj = <<>>
  /\ Q = {}
  /\ ctl = [pc |-> "idle", pass |-> CORNER, count |-> 0, iter |-> 0, sinceSeed |-> FALSE]
  /\ att = NoAttempt

(***************************************************************************)
(* Specification SpecHE: construction and queries of the half-edge mesh    *)
(***************************************************************************)
InitHE ==
  /\ quadrangles \in QuadListInputs
  /\ singularVertices = {}
  /\ M = EmptyMesh
  /\ ret = <<>>
  /\ query = NoQuery
  /\ cav = EmptyCavity
  /\ G = Gardener(EmptyMesh)
  /\ single = FALSE
  /\ last = NoCall
  /\ run = "fresh"
  /\ patterns = <<>>
  /\ RepairIdle

\* the mesher appends a quad to the face (lists of free quads, one per multiset)
AddQuadrangle ==
  /\ ret = <<>>
  /\ Len(quadrangles) < MaxFreeQuads
  /\ \A k \in 1 .. Len(quadrangles) : quadrangles[k] \in FreeQuad
  /\ \E q \in FreeQuad :
       /\ IF quadrangles = <<>> THEN TRUE
          ELSE QuadKey(quadrangles[Len(quadrangles)]) <= QuadKey(q)
       /\ quadrangles' = Append(quadrangles, q)
  /\ UNCHANGED <<singularVertices, M, ret, query>>
  /\ UNCHANGED <<cavVars, rsdVars>>

CreateMeshHalfEdges ==
  /\ ret = <<>>
  /\ LET r == createMeshHalfEdges(quadrangles, singularVertices)
     IN /\ M' = r.M
        /\ ret' = <<r.ret>>
  /\ UNCHANGED <<quadrangles, singularVertices, query>>
  /\ UNCHANGED <<cavVars, rsdVars>>

VertexFaceValence ==
  /\ ret = <<0>>
  /\ query = NoQuery
  /\ \E v \in Idx(M.vertices) :
       query' = [op |-> "vertexFaceValence", v |-> v,
                 res |-> vertexFaceValence(M, v)]
  /\ UNCHANGED <<quadrangles, singularVertices, M, ret>>
  /\ UNCHANGED <<cavVars, rsdVars>>

VertexFaces ==
  /\ ret = <<0>>
  /\ query = NoQuery
  /\ \E v \in Idx(M.vertices) :
       query' = [op |-> "vertexFaces", v |-> v, res |-> vertexFaces(M, v)]
  /\ UNCHANGED <<quadrangles, singularVertices, M, ret>>
  /\ UNCHANGED <<cavVars, rsdVars>>

NextHE == AddQuadrangle \/ CreateMeshHalfEdges \/ VertexFaceValence \/ VertexFaces

SpecHE == InitHE /\ [][NextHE]_vars

(***************************************************************************)
(* Specification SpecCav: a cavity on a mesh built by createMeshHalfEdges, *)
(* grown by direct calls of growByFlip or through a Gardener               *)
(***************************************************************************)

\* the half-edges of the faces of quads whose other side is not in quads
BoundaryHes(quads) ==
  {he \in Idx(M.hedges) :
     /\ At(M.hedges, he).face \in quads
     /\ \/ opposite(M, he) = NO_ID
        \/ At(M.hedges, opposite(M, he)).face \notin quads}

\* s is one closed loop: consecutive entries chained, the last one back to
\* the first, no entry twice
ClosedLoop(s) ==
  /\ Len(s) > 0
  /\ \A k \in Idx(s) : vertex(M, At(s, k), 1) = vertex(M, At(s, (k + 1) % Len(s)), 0)
  /\ \A a, b \in Idx(s) : a # b => At(s, a) # At(s, b)

\* hes is one closed loop and is the boundary of quads
LoopBoundsQuads(c) == ClosedLoop(c.hes) /\ Range(c.hes) = BoundaryHes(c.quads)

InitCav ==
  /\ quadrangles \in CavMeshes
  /\ singularVertices \in SingularChoices(quadrangles)
  /\ M = createMeshHalfEdges(quadrangles, singularVertices).M
  /\ ret = <<0>>
  /\ query = NoQuery
  /\ cav = EmptyCavity
  /\ G = Gardener(M)
  /\ single = FALSE
  /\ last = NoCall
  /\ run = "fresh"
  /\ patterns = <<>>
  /\ RepairIdle

\* The cavity can be worked on.  A call that returned false and changed
\* nothing leaves the state it was made in: what may follow it is explored
\* from that state.
Usable ==
  /\ run \in {"ok", "closefailed"}
  /\ last.ret \/ last.changed

RunAfter(status) == IF status = "ok" THEN run ELSE status

\* FCavity fcav(M); fcav.init(quads)
CavityInit ==
  /\ run = "fresh"
  /\ \E quadsInit \in SeedsOf(M) :
       \E r \in {init(M, cav, quadsInit)} :
          /\ cav' = r.cav
          /\ single' = (Len(quadsInit) = 1)
          /\ last' = [NoCall EXCEPT !.op = "init", !.quadsInit = quadsInit,
                                    !.ret = r.ret, !.changed = TRUE]
          /\ run' = IF r.diverges THEN "diverges"
                    ELSE IF r.ret THEN "ok" ELSE "rejected"
  /\ UNCHANGED <<G>>
  /\ UNCHANGED <<heVars, rsdVars, patterns>>

\* a direct call cav.growByFlip(i, info, rejectNewSings)
GrowByFlip ==
  /\ Usable
  /\ ~G.current
  /\ Cardinality(cav.quads) < MaxCavQuads
  /\ \E i \in 0 .. Len(cav.hes), rejectNewSings \in BOOLEAN :
       \E r \in {growByFlip(M, cav, i, rejectNewSings)} :
          /\ cav' = r.cav
          /\ last' = [NoCall EXCEPT !.op = "growByFlip", !.ret = r.ret,
                                    !.reject = rejectNewSings,
                                    !.changed = (r.cav # cav),
                                    !.config = r.config, !.why = r.why]
          /\ run' = IF r.undefined THEN "undefined"
                    ELSE IF r.diverges THEN "diverges"
                    ELSE IF ~r.ret /\ r.cav # cav THEN "closefailed"
                    ELSE run
  /\ UNCHANGED <<G, single>>
  /\ UNCHANGED <<heVars, rsdVars, patterns>>

\* G.setCavity(fcav), as the callers do right after init
SetCavity ==
  /\ run = "ok"
  /\ last.op = "init"
  /\ LET r == setCavity(M, G, cav)
     IN /\ G' = r.G
        /\ last' = [NoCall EXCEPT !.op = "setCavity", !.ret = r.ret]
  /\ UNCHANGED <<cav, single, run>>
  /\ UNCHANGED <<heVars, rsdVars, patterns>>

\* G.convexify()
Convexify ==
  /\ Usable
  /\ G.current
  /\ \E r \in {convexify(M, G, cav)} :
        /\ cav' = r.cav
        /\ G' = r.G
        /\ run' = RunAfter(r.status)
        /\ last' = [NoCall EXCEPT !.op = "convexify", !.ret = TRUE, !.reject = TRUE,
                                  !.changed = (r.cav # cav),
                                  !.preQuads = cav.quads,
                                  !.preLoop = LoopBoundsQuads(cav)]
  /\ UNCHANGED <<single>>
  /\ UNCHANGED <<heVars, rsdVars, patterns>>

\* G.growIsotropic(N) on the cavity just given to the Gardener
GrowIsotropic ==
  /\ run = "ok"
  /\ last.op = "setCavity"
  /\ G.current
  /\ \E N \in 0 .. MaxGrowN :
       /\ Cardinality(cav.quads) + N <= MaxCavQuads
       /\ \E r \in growIsotropic(M, G, cav, N) :
            /\ cav' = r.cav
            /\ G' = r.G
            /\ run' = RunAfter(r.status)
            /\ last' = [NoCall EXCEPT !.op = "growIsotropic", !.ret = TRUE,
                                      !.changed = (r.cav # cav),
                                      !.reject = TRUE, !.n = N, !.nb = r.nb,
                                      !.preQuads = cav.quads,
                                      !.preLoop = LoopBoundsQuads(cav)]
  /\ UNCHANGED <<single>>
  /\ UNCHANGED <<heVars, rsdVars, patterns>>

NextCav == CavityInit \/ GrowByFlip \/ SetCavity \/ Convexify \/ GrowIsotropic

SpecCav == InitCav /\ [][NextCav]_vars

(***************************************************************************)
(* Specification SpecGM: one Gardener grows cavities one after the other   *)
(* on the same mesh, as the callers of growMaximal do: FCavity fcav(M);    *)
(* fcav.init(quads); G.setCavity(fcav); G.growMaximal()                    *)
(***************************************************************************)
InitGM ==
  /\ quadrangles \in GrowMeshes
  /\ singularVertices \in GrowSingularChoices(quadrangles)
  /\ M = createMeshHalfEdges(quadrangles, singularVertices).M
  /\ ret = <<0>>
  /\ query = NoQuery
  /\ cav = EmptyCavity
  /\ G = Gardener(M)
  /\ single = FALSE
  /\ last = [op |-> "none", ret |-> FALSE, tried |-> 0]
  /\ run = "fresh"
  /\ patterns \in PatternDatabases
  /\ gf = [quadrangles |-> <<>>, mesh_vertices |-> <<>>]
  /\ heap = [elem |-> <<>>, vert |-> {}]
  /\ \E corners \in GrowCornerChoices(quadrangles) :
       cad = [onWhat |-> [mv \in corners |-> CORNER], vAngle |-> <<>>]
  /\ adj = <<>>
  /\ Q = {}
  /\ ctl = [pc |-> "idle", pass |-> CORNER, count |-> 0, iter |-> 0, sinceSeed |-> FALSE]
  /\ att = NoAttempt

\* FCavity fcav(M); fcav.init(quads): a new cavity, the Gardener is kept
NewCavity ==
  /\ run \in {"fresh", "ok"}
  /\ last.op \in {"none", "growMaximal"}
  /\ last.tried < MaxCavities
  /\ \E quadsInit \in GrowSeeds(M, G) :
       \E r \in {init(M, EmptyCavity, quadsInit)} :
          /\ ~r.diverges
          /\ r.ret
          /\ cav' = r.cav
          /\ single' = (Len(quadsInit) = 1)
          /\ last' = [op |-> "init", ret |-> r.ret, tried |-> last.tried + 1]
          /\ run' = "ok"
  /\ UNCHANGED <<G, patterns>>
  /\ UNCHANGED <<heVars, rsdVars>>

\* G.setCavity(fcav)
GiveCavity ==
  /\ run = "ok"
  /\ last.op = "init"
  /\ \E r \in {setCavity(M, G, cav)} :
        /\ G' = r.G
        /\ last' = [op |-> "setCavity", ret |-> r.ret, tried |-> last.tried]
  /\ UNCHANGED <<cav, single, run, patterns>>
  /\ UNCHANGED <<heVars, rsdVars>>

(* G.growMaximal(); last keeps the cavity given, what the call did, and     *)
(* what the same call does with a Gardener constructed for it               *)
GrowMaximal ==
  /\ run = "ok"
  /\ last.op = "setCavity"
  /\ \E r \in {growMaximal(M, patterns, cad, G, cav)},
        f \in {growMaximal(M, patterns, cad, setCavity(M, Gardener(M), cav).G, cav)} :
        /\ cav' = r.cav
        /\ G' = r.G
        /\ run' = RunAfter(r.status)
        /\ last' = [op |-> "growMaximal", ret |-> r.ret, tried |-> last.tried,
                    given |-> cav, grown |-> r.grown, snaps |-> r.snaps,
                    status |-> r.status, tests |-> r.tests, turns |-> r.turns,
                    flipped |-> r.flipped, grew |-> r.grew,
                    target |-> G.cavityTargetNbOfSides,
                    lastBefore |-> G.lastIrregularity,
                    fresh |-> [ret |-> f.ret, cav |-> f.cav, snaps |-> f.snaps,
                               status |-> f.status]]
  /\ UNCHANGED <<single, patterns>>
  /\ UNCHANGED <<heVars, rsdVars>>

NextGM == NewCavity \/ GiveCavity \/ GrowMaximal

SpecGM == InitGM /\ [][NextGM]_vars

(***************************************************************************)
(* Specification SpecRSD: remeshSmallDefects on one face                   *)
(***************************************************************************)
InitRSD ==
  /\ quadrangles = <<>>
  /\ singularVertices = {}
  /\ M = EmptyMesh
  /\ ret = <<>>
  /\ query = NoQuery
  /\ cav = EmptyCavity
  /\ G = Gardener(EmptyMesh)
  /\ single = FALSE
  /\ last = NoCall
  /\ run = "fresh"
  /\ patterns = <<>>
  /\ \E F \in RepairFaces :
       /\ gf = [quadrangles |-> [k \in 1 .. Len(F.quads) |-> k],
                mesh_vertices |-> SortSet(VerticesOf(F.quads) \ DOMAIN F.onWhat)]
       /\ heap = [elem |-> F.quads, vert |-> VerticesOf(F.quads)]
       /\ cad = [onWhat |-> F.onWhat, vAngle |-> F.vAngle]
  /\ adj = <<>>
  /\ Q = {}
  /\ ctl = [pc |-> "start", pass |-> CORNER, count |-> 0, iter |-> 0, sinceSeed |-> FALSE]
  /\ att = NoAttempt

\* the adjacency map is built from the quads of the face
BuildAdjacencyMap ==
  /\ ctl.pc = "start"
  /\ adj' = BuildAdjacency(gf, heap, <<>>, 1)
  /\ ctl' = [ctl EXCEPT !.pc = "seed"]
  /\ UNCHANGED <<gf, heap, cad, Q, att>>
  /\ UNCHANGED <<heVars, cavVars>>

\* a pass starts: its queue is filled
SeedQueue ==
  /\ ctl.pc = "seed"
  /\ Q' = initPriorityQueueWithDefects(ctl.pass, heap, cad, adj, {})
  /\ ctl' = [ctl EXCEPT !.pc = "loop", !.sinceSeed = FALSE]
  /\ UNCHANGED <<gf, heap, cad, adj, att>>
  /\ UNCHANGED <<heVars, cavVars>>

\* one iteration of the while loop of a pass
RepairAttempt ==
  /\ ctl.pc = "loop"
  /\ Q # {}
  /\ ctl.count < MaxRepairs
  /\ \E top \in QueueTop(Q) :
       \E r \in RepairOutcomes(ctl.pass, [gf |-> gf, heap |-> heap, adj |-> adj], cad,
                               Q \ {top}, top[2]) :
         /\ gf' = r.gf
         /\ heap' = r.heap
         /\ adj' = r.adj
         /\ Q' = r.Q
         /\ att' = r.att
         /\ ctl' = [ctl EXCEPT !.iter = @ + 1,
                               !.count = IF r.accepted THEN @ + 1 ELSE @,
                               !.sinceSeed = IF r.att.reseeded THEN FALSE
                                             ELSE (@ \/ r.accepted)]
  /\ UNCHANGED cad
  /\ UNCHANGED <<heVars, cavVars>>

\* the queue is empty: the next pass, or the end after the SURFACE pass
EndPass ==
  /\ ctl.pc = "loop"
  /\ Q = {}
  /\ ctl' = IF ctl.pass = SURFACE THEN [ctl EXCEPT !.pc = "done"]
            ELSE [ctl EXCEPT !.pc = "seed", !.pass = @ + 1]
  /\ UNCHANGED <<gf, heap, cad, adj, Q, att>>
  /\ UNCHANGED <<heVars, cavVars>>

NextRSD == BuildAdjacencyMap \/ SeedQueue \/ RepairAttempt \/ EndPass

SpecRSD == InitRSD /\ [][NextRSD]_vars

(***************************************************************************)
(* Specification SpecRSDLive: the passes of remeshSmallDefects without a   *)
(* bound on the repairs.  count[pass] is only printed at the end and is    *)
(* left at 0, and att keeps the kind of the last iteration only; what is    *)
(* bounded is the face: a replacement that adds quads                       *)
(* leaves at most MaxLiveQuads quads in it and the allocator gives new      *)
(* addresses up to MaxLiveVertex, and the iterations followed are those    *)
(* that leave at most MaxLiveQueue entries in the queue.                   *)
(* The loops run as long as their tests hold: weak fairness of every step, *)
(* written for the iteration of the while loop with AttemptDue, the test   *)
(* of that loop.                                                           *)
(***************************************************************************)
InitRSDLive ==
  /\ InitRSD
  /\ \E F \in LiveFaces : heap.elem = F.quads /\ cad.vAngle = F.vAngle

LiveRepairAttempt ==
  /\ ctl.pc = "loop"
  /\ Q # {}
  /\ \E top \in QueueTop(Q) :
       \E r \in RepairOutcomes(ctl.pass, [gf |-> gf, heap |-> heap, adj |-> adj], cad,
                               Q \ {top}, top[2]) :
         /\ Len(r.gf.quadrangles) <= Len(gf.quadrangles) \/ Len(r.gf.quadrangles) <= MaxLiveQuads
         /\ r.heap.vert \subseteq heap.vert \cup (1 .. MaxLiveVertex)
         /\ Cardinality(r.Q) <= MaxLiveQueue
         /\ gf' = r.gf
         /\ heap' = r.heap
         /\ adj' = r.adj
         /\ Q' = r.Q
         /\ att' = [NoAttempt EXCEPT !.kind = r.att.kind, !.duet = r.att.duet]
         /\ UNCHANGED ctl
  /\ UNCHANGED cad
  /\ UNCHANGED <<heVars, cavVars>>

NextRSDLive == BuildAdjacencyMap \/ SeedQueue \/ LiveRepairAttempt \/ EndPass

\* the while loop of a pass has a vertex to pop
AttemptDue == ctl.pc = "loop" /\ Q # {}

SpecRSDLive ==
  /\ InitRSDLive
  /\ [][NextRSDLive]_vars
  /\ WF_vars(BuildAdjacencyMap)
  /\ WF_vars(SeedQueue)
  /\ WF_vars(EndPass)
  /\ ([]<>(~AttemptDue) \/ []<><<LiveRepairAttempt>>_vars)

(***************************************************************************)
(* Specification SpecPar: the parallel loop of improveQuadMeshTopology,    *)
(* one thread per face.  gf, adj, Q, ctl and att hold one value per face;  *)
(* heap and the entities of cad are shared; a step is one call or one      *)
(* iteration of the repair loop of one thread.                             *)
(***************************************************************************)
InitPar ==
  /\ quadrangles = <<>>
  /\ singularVertices = {}
  /\ M = EmptyMesh
  /\ ret = <<>>
  /\ query = NoQuery
  /\ cav = EmptyCavity
  /\ G = Gardener(EmptyMesh)
  /\ single = FALSE
  /\ last = NoCall
  /\ run = "fresh"
  /\ patterns = <<>>
  /\ \E P \in ParModels :
       /\ gf = [f \in ParFaces |-> P.faces[f]]
       /\ heap = [elem |-> P.quads, vert |-> VerticesOf(P.quads)]
       /\ cad = [onWhat |-> OnWhatOf(P.ents), vAngle |-> P.vAngle, ents |-> P.ents]
  /\ adj = [f \in ParFaces |-> <<>>]
  /\ Q = [f \in ParFaces |-> {}]
  /\ ctl = [f \in ParFaces |->
              [pc |-> "transfer", pass |-> CORNER, count |-> 0, iter |-> 0,
               sinceSeed |-> FALSE]]
  /\ att = [f \in ParFaces |-> NoAttempt]

\* the classes and the angles thread f works with
FaceCad(f) == [onWhat |-> cad.onWhat, vAngle |-> cad.vAngle[f]]

\* transferSeamGEdgesVerticesToGFace(gf)
TransferSeam(f) ==
  /\ ctl[f].pc = "transfer"
  /\ \E r \in transferSeamGEdgesVerticesToGFace(f, gf[f], heap, FaceCad(f), cad.ents) :
       /\ gf' = [gf EXCEPT ![f] = r.gf]
       /\ heap' = r.heap
       /\ cad' = [cad EXCEPT !.ents = r.ents]
  /\ ctl' = [ctl EXCEPT ![f].pc = "start"]
  /\ UNCHANGED <<adj, Q, att>>
  /\ UNCHANGED <<heVars, cavVars>>

\* remeshSmallDefects(gf): the adjacency map
ParBuildAdjacencyMap(f) ==
  /\ ctl[f].pc = "start"
  /\ adj' = [adj EXCEPT ![f] = BuildAdjacency(gf[f], heap, <<>>, 1)]
  /\ ctl' = [ctl EXCEPT ![f].pc = "seed"]
  /\ UNCHANGED <<gf, heap, cad, Q, att>>
  /\ UNCHANGED <<heVars, cavVars>>

ParSeedQueue(f) ==
  /\ ctl[f].pc = "seed"
  /\ Q' = [Q EXCEPT ![f] = initPriorityQueueWithDefects(ctl[f].pass, heap, FaceCad(f),
                                                         adj[f], {})]
  /\ ctl' = [ctl EXCEPT ![f].pc = "loop", ![f].sinceSeed = FALSE]
  /\ UNCHANGED <<gf, heap, cad, adj, att>>
  /\ UNCHANGED <<heVars, cavVars>>

\* one iteration of the while loop; the vertices removed leave their entity
ParRepairAttempt(f) ==
  /\ ctl[f].pc = "loop"
  /\ Q[f] # {}
  /\ ctl[f].count < MaxParRepairs
  /\ \E top \in QueueTop(Q[f]) :
       \E r \in RepairOutcomes(ctl[f].pass,
                               [gf |-> gf[f], heap |-> heap, adj |-> adj[f]],
                               FaceCad(f), Q[f] \ {top}, top[2]) :
         /\ gf' = [gf EXCEPT ![f] = r.gf]
         /\ heap' = r.heap
         /\ adj' = [adj EXCEPT ![f] = r.adj]
         /\ Q' = [Q EXCEPT ![f] = r.Q]
         /\ att' = [att EXCEPT ![f] = r.att]
         /\ cad' = [cad EXCEPT !.ents = IF r.accepted
                                        THEN EraseFromEntities(@, r.att.inside, 1)
                                        ELSE @]
         /\ ctl' = [ctl EXCEPT ![f].iter = @ + 1,
                               ![f].count = IF r.accepted THEN @ + 1 ELSE @,
                               ![f].sinceSeed = IF r.att.reseeded THEN FALSE
                                                ELSE (@ \/ r.accepted)]
  /\ UNCHANGED <<heVars, cavVars>>

ParEndPass(f) ==
  /\ ctl[f].pc = "loop"
  /\ Q[f] = {}
  /\ ctl' = IF ctl[f].pass = SURFACE THEN [ctl EXCEPT ![f].pc = "done"]
            ELSE [ctl EXCEPT ![f].pc = "seed", ![f].pass = @ + 1]
  /\ UNCHANGED <<gf, heap, cad, adj, Q, att>>
  /\ UNCHANGED <<heVars, cavVars>>

NextPar ==
  \E f \in ParFaces :
     \/ TransferSeam(f)
     \/ ParBuildAdjacencyMap(f)
     \/ ParSeedQueue(f)
     \/ ParRepairAttempt(f)
     \/ ParEndPass(f)

SpecPar == InitPar /\ [][NextPar]_vars

(***************************************************************************)
(* Specification SpecOrd: FCavity::init up to orderedHalfEdgesFromStack,   *)
(* for seeds that are any list of distinct faces.                          *)
(***************************************************************************)
InitOrd ==
  /\ quadrangles = GridQuads(OrdNx, OrdNy)
  /\ singularVertices = {}
  /\ M = createMeshHalfEdges(quadrangles, singularVertices).M
  /\ ret = <<0>>
  /\ query = NoQuery
  /\ cav = EmptyCavity
  /\ G = Gardener(M)
  /\ single = FALSE
  /\ \E quadsInit \in OrdSeeds(M) :
       last = [op |-> "seed", quadsInit |-> quadsInit]
  /\ run = "fresh"
  /\ patterns = <<>>
  /\ RepairIdle

\* the loop over quadsInit and removeInteriorHalfEdges(M, hes_stack)
CollectStack ==
  /\ last.op = "seed"
  /\ last' = [op |-> "stack", quadsInit |-> last.quadsInit,
              hes_stack |-> removeInteriorHalfEdges(M, HesOfFaces(M, last.quadsInit))]
  /\ cav' = [cav EXCEPT !.quads = Range(last.quadsInit)]
  /\ UNCHANGED <<G, single, run, patterns>>
  /\ UNCHANGED <<heVars, rsdVars>>

\* orderedHalfEdgesFromStack(this->M, hes_stack, this->hes)
OrderStack ==
  /\ last.op = "stack"
  /\ \E r \in {orderedHalfEdgesFromStack(M, last.hes_stack)} :
       /\ last' = [op |-> "orderedHalfEdgesFromStack", quadsInit |-> last.quadsInit,
                   hes_stack |-> last.hes_stack, ret |-> r.ret]
       /\ cav' = [cav EXCEPT !.hes = r.hes]
       /\ run' = IF r.diverges THEN "diverges" ELSE "ok"
  /\ UNCHANGED <<G, single, patterns>>
  /\ UNCHANGED <<heVars, rsdVars>>

NextOrd == CollectStack \/ OrderStack

SpecOrd == InitOrd /\ [][NextOrd]_vars

(***************************************************************************)
(* Specification SpecRC: remeshCavitiesAroundSingularities on one face.    *)
(* ctl holds the position in the loops, the singularities already tried in *)
(* the current turn of the while loop, inProgress and count.  The order of *)
(* prio_sing depends on the positions of the vertices: any order is taken. *)
(***************************************************************************)
InitRC ==
  /\ quadrangles \in RemeshMeshes
  /\ singularVertices \in RemeshSingularChoices(quadrangles)
  /\ M = createMeshHalfEdges(quadrangles, singularVertices).M
  /\ ret = <<0>>
  /\ query = NoQuery
  /\ cav = EmptyCavity
  /\ G = Gardener(M)
  /\ single = FALSE
  /\ last = [op |-> "createMeshHalfEdges"]
  /\ run = "ok"
  /\ patterns \in PatternDatabases
  /\ gf = [quadrangles |-> [k \in 1 .. Len(quadrangles) |-> k - 1],
           mesh_vertices |-> SortSet({At(M.vertices, v).ptr :
                                        v \in {x \in Idx(M.vertices) : ~G.vOnBoundary[x]}})]
  /\ heap = [elem |-> [q \in Idx(quadrangles) |-> At(quadrangles, q)],
             vert |-> VerticesOf(quadrangles)]
  /\ \E corners \in GrowCornerChoices(quadrangles) :
       cad = [onWhat |-> [mv \in corners |-> CORNER], vAngle |-> <<>>]
  /\ adj = <<>>
  /\ Q = {}
  /\ ctl = [pc |-> "for", tried |-> {}, inProgress |-> FALSE, count |-> 0]
  /\ att = NoAttempt

(* one turn of the for loop up to growMaximal: fcav.init(vertexFaces(v)),   *)
(* G.setCavity(fcav), G.growMaximal() and, when it returns true,            *)
(* fcav.updateSides()                                                       *)
GrowAround ==
  /\ run = "ok"
  /\ ctl.pc = "for"
  /\ \E v \in {x \in Idx(M.vertices) : IsSing(M, x)} \ ctl.tried :
       \E r \in {init(M, EmptyCavity, vertexFaces(M, v))} :
          IF r.diverges \/ ~r.ret
          THEN /\ run' = IF r.diverges THEN "diverges" ELSE run
               /\ ctl' = [ctl EXCEPT !.tried = @ \cup {v}]
               /\ last' = [op |-> "init", v |-> v, ret |-> FALSE]
               /\ UNCHANGED <<cav, G>>
          ELSE \E g \in {growMaximal(M, patterns, cad, setCavity(M, G, r.cav).G, r.cav)} :
                  /\ cav' = IF g.ret THEN [g.cav EXCEPT !.side = updateSides(M, g.cav).side]
                            ELSE g.cav
                  /\ G' = g.G
                  /\ run' = RunAfter(g.status)
                  /\ ctl' = [ctl EXCEPT !.tried = @ \cup {v},
                                        !.pc = IF g.ret THEN "remesh" ELSE "for"]
                  /\ last' = [op |-> "growMaximal", v |-> v, ret |-> g.ret]
  /\ UNCHANGED <<single, patterns>>
  /\ UNCHANGED <<heVars, rsdVarsButCtl>>

(* okr = remeshCavityWithQuadPatterns(gf, fcav, newSingularities) and what  *)
(* the loop does with it: on true the seed leaves singularVertices, the new *)
(* singularities enter it, inProgress is set, count goes up and the for     *)
(* loop is left                                                             *)
RemeshCavity ==
  /\ run = "ok"
  /\ ctl.pc = "remesh"
  /\ \E ext \in PatchOutcomes(gf, heap) :
       \E r \in {remeshCavityWithQuadPatterns(M, patterns, gf, heap, cav, ext)} :
          /\ gf' = r.gf
          /\ heap' = r.heap
          /\ singularVertices' =
               IF r.ret
               THEN (singularVertices \ {At(M.vertices, last.v).ptr})
                    \cup Range(r.newSingularities)
               ELSE singularVertices
          /\ ctl' = IF r.ret
                    THEN [ctl EXCEPT !.pc = "while", !.inProgress = TRUE, !.count = @ + 1]
                    ELSE [ctl EXCEPT !.pc = "for"]
          /\ last' = [op |-> "remeshCavityWithQuadPatterns", v |-> last.v, ret |-> r.ret,
                      meshable |-> r.meshable,
                      status |-> IF r.called THEN ext.status ELSE 0,
                      gfBefore |-> gf, singularBefore |-> singularVertices,
                      inProgressBefore |-> ctl.inProgress]
  /\ UNCHANGED <<quadrangles, M, ret, query>>
  /\ UNCHANGED <<cavVarsButLast, cad, adj, Q, att>>

(* the next turn of the while loop when the face still holds the quads M    *)
(* was built from: createMeshHalfEdges and a new Gardener.  (The corners of *)
(* the elements of a template are not part of the model: the turns that     *)
(* follow a replacement are not taken.)                                     *)
NextTurn ==
  /\ run = "ok"
  /\ ctl.pc = "while"
  /\ ctl.inProgress
  /\ gf.quadrangles = [k \in 1 .. Len(quadrangles) |-> k - 1]
  /\ \E r \in {createMeshHalfEdges(quadrangles, singularVertices)} :
        /\ M' = r.M
        /\ G' = Gardener(r.M)
  /\ ctl' = [ctl EXCEPT !.pc = "for", !.tried = {}, !.inProgress = FALSE]
  /\ last' = [op |-> "createMeshHalfEdges"]
  /\ UNCHANGED <<quadrangles, singularVertices, ret, query>>
  /\ UNCHANGED <<cav, single, run, patterns>>
  /\ UNCHANGED <<gf, heap, cad, adj, Q, att>>

\* the for loop ends with inProgress false: the while loop ends
EndLoops ==
  /\ run = "ok"
  /\ ctl.pc = "for"
  /\ {x \in Idx(M.vertices) : IsSing(M, x)} \subseteq ctl.tried
  /\ ctl' = [ctl EXCEPT !.pc = "done"]
  /\ last' = [op |-> "return", count |-> ctl.count]
  /\ UNCHANGED <<cav, G, single, run, patterns>>
  /\ UNCHANGED <<heVars, rsdVarsButCtl>>

NextRC == GrowAround \/ RemeshCavity \/ NextTurn \/ EndLoops

SpecRC == InitRC /\ [][NextRC]_vars

(***************************************************************************)
(* Local smoothing kernels (kernelSmoothing and what it calls)             *)
(***************************************************************************)

\* A vec3 is a point <<x, y>> of the plane of the mesh with integer
\* coordinates; a double is an integer, a quotient is rounded down and a
\* square root is rounded down.
VAdd(a, b) == <<a[1] + b[1], a[2] + b[2]>>
VSub(a, b) == <<a[1] - b[1], a[2] - b[2]>>
VScale(k, a) == <<k * a[1], k * a[2]>>
VDiv(a, n) == <<a[1] \div n, a[2] \div n>>
dot(a, b) == a[1] * b[1] + a[2] * b[2]
\* the only component of the cross product of two vectors of the plane
cross(a, b) == a[1] * b[2] - a[2] * b[1]
\* bound of the squared lengths the square root is taken of
MaxLength == 40
ISqrt(n) == CHOOSE r \in 0 .. MaxLength : r * r <= n /\ (r + 1) * (r + 1) > n
length(a) == ISqrt(dot(a, a))

RECURSIVE SumV(_)
SumV(s) == IF s = <<>> THEN <<0, 0>> ELSE VAdd(Head(s), SumV(Tail(s)))

KS_ERROR == 0
KS_OK == 1
KS_REJECTED_PROJECTION == 2
KS_REJECTED_QUALITY == 3

\* the kernels of LocalSmoothingKernel
Kernels == {"Laplacian", "WinslowAtRegular", "AngleBased"}

\* extractGeometricStencil: the whole one ring when it has N entries, one
\* entry over two when it has 2N, false otherwise
extractGeometricStencil(oneRing, points, N) ==
  IF Len(oneRing) = N
  THEN [ok |-> TRUE, stencil |-> [i \in 1 .. N |-> At(points, At(oneRing, i - 1))]]
  ELSE IF Len(oneRing) = 2 * N
       THEN [ok |-> TRUE,
             stencil |-> [i \in 1 .. N |-> At(points, At(oneRing, 2 * (i - 1)))]]
       ELSE [ok |-> FALSE, stencil |-> <<>>]

\* kernelLaplacian: the mean of the stencil
kernelLaplacian(stencil) ==
  IF Len(stencil) = 0
  THEN [ok |-> FALSE, newPos |-> <<0, 0>>]
  ELSE [ok |-> TRUE, newPos |-> VDiv(SumV(stencil), Len(stencil))]

\* kernelWinslow: reorders the full one ring with o2n = {0,2,4,6,1,7,3,5} and
\* applies kernelWinslowSpecialStencil (hx = hy = 1); numerator and
\* denominator are multiplied by 4 to keep the cross derivative whole
kernelWinslow(stencil) ==
  LET o2n == <<0, 2, 4, 6, 1, 7, 3, 5>>
      p == [k \in 0 .. 7 |-> At(stencil, At(o2n, k))]
      r0 == VSub(p[0], p[2])
      r1 == VSub(p[1], p[3])
      alpha_0 == dot(r1, r1)
      alpha_1 == dot(r0, r0)
      beta == dot(r0, r1)
      u4 == VSub(VAdd(p[4], p[7]), VAdd(p[6], p[5]))
      denom == 2 * alpha_0 + 2 * alpha_1
      num == VSub(VAdd(VScale(4 * alpha_0, VAdd(p[0], p[2])),
                       VScale(4 * alpha_1, VAdd(p[1], p[3]))),
                  VScale(2 * beta, u4))
  IN IF denom = 0
     THEN [ok |-> FALSE, newPos |-> <<0, 0>>]
     ELSE [ok |-> TRUE, newPos |-> VDiv(num, 4 * denom)]

\* the points between a and b, coordinate by coordinate
Between(a, b) ==
  {<<x, y>> : x \in (IF a[1] <= b[1] THEN a[1] .. b[1] ELSE b[1] .. a[1]),
              y \in (IF a[2] <= b[2] THEN a[2] .. b[2] ELSE b[2] .. a[2])}

\* kernelAngleBased: false when the centre lies on a stencil point, when two
\* consecutive stencil points coincide, when the two edges at a stencil point
\* are opposite, or when the sum of the angles is zero.  The angles are not
\* computed: the sum may be zero or not, and the weighted mean of the
\* rotated points is any point between the centre and the mean of the
\* stencil.
kernelAngleBased(center, stencil) ==
  LET N == Len(stencil)
      sprev(i) == stencil[((N + i - 2) % N) + 1]
      snext(i) == stencil[(i % N) + 1]
      degenerate(i) ==
        \/ stencil[i] = center
        \/ sprev(i) = stencil[i]
        \/ snext(i) = stencil[i]
        \/ /\ cross(VSub(sprev(i), stencil[i]), VSub(snext(i), stencil[i])) = 0
           /\ dot(VSub(sprev(i), stencil[i]), VSub(snext(i), stencil[i])) < 0
  IN IF \E i \in 1 .. N : degenerate(i)
     THEN {[ok |-> FALSE, newPos |-> <<0, 0>>]}
     ELSE {[ok |-> FALSE, newPos |-> <<0, 0>>]}
            \cup {[ok |-> TRUE, newPos |-> p] :
                    p \in Between(center, VDiv(SumV(stencil), N))}

\* kernelSmoothingFloatingPoint on an edge-adjacent stencil: the Laplacian
\* kernel or the angle based one
kernelSmoothingFloatingPoint(kernel, center, stencil) ==
  IF kernel = "Laplacian"
  THEN {kernelLaplacian(stencil)}
  ELSE kernelAngleBased(center, stencil)

\* the values an uninitialised vec3 may hold
IndeterminateVec == {<<0, 0>>, <<0, MaxLength>>, <<MaxLength, 0>>}

\* projectOnStencilTrianglePlanes: every triangle (centre, p_i, p_i+1) lies
\* in the plane of the mesh, so the projection on the plane of a triangle
\* with a normal is the query itself at distance 0; when no triangle has a
\* normal proj is never assigned.  It always returns true.
projectOnStencilTrianglePlanes(center, stencil, pos) ==
  LET N == Len(stencil)
  IN IF \E i \in 1 .. N :
          cross(VSub(stencil[i], center), VSub(stencil[(i % N) + 1], center)) # 0
     THEN {[ok |-> TRUE, proj |-> pos]}
     ELSE {[ok |-> TRUE, proj |-> p] : p \in IndeterminateVec}

\* sp->closestPoint(newPos): the projector finds the point of the surface
\* (the point itself, the surface being the plane of the mesh) or fails
closestPoint(pos) == {[ok |-> TRUE, proj |-> pos], [ok |-> FALSE, proj |-> pos]}

\* checkGeometryIsNotInverted: no triangle of the stencil turns over
checkGeometryIsNotInverted(center, stencil, newPos) ==
  LET N == Len(stencil)
  IN \A i \in 1 .. N :
        LET p2 == stencil[i]
            p3 == stencil[(i % N) + 1]
            N_before == cross(VSub(p2, center), VSub(p3, center))
            N_after == cross(VSub(p2, newPos), VSub(p3, newPos))
        IN ~(N_before * N_after < 0)

\* the new position of kernelSmoothing before it is written: the kernel on
\* the stencil, then the projection, then the inversion test on stencil2
\* (the edge-adjacent stencil); a set of [status, newPos]
KernelMove(moves, center, stencil2, projOnPlanes, sp, smartVariant) ==
  UNION {IF ~m.ok THEN {[status |-> KS_ERROR, newPos |-> center]}
         ELSE LET projs == IF projOnPlanes
                           THEN projectOnStencilTrianglePlanes(center, stencil2, m.newPos)
                           ELSE IF sp THEN closestPoint(m.newPos)
                                ELSE {[ok |-> TRUE, proj |-> m.newPos]}
              IN {IF ~p.ok THEN [status |-> KS_REJECTED_PROJECTION, newPos |-> center]
                  ELSE IF smartVariant /\ ~checkGeometryIsNotInverted(center, stencil2, p.proj)
                       THEN [status |-> KS_REJECTED_QUALITY, newPos |-> center]
                       ELSE [status |-> KS_OK, newPos |-> p.proj] : p \in projs}
         : m \in moves}

\* the outcomes of kernelSmoothing before anything is written
KernelOutcomes(kernel, v, oneRing, points, projOnPlanes, sp, smartVariant) ==
  LET N == Len(At(oneRing, v))
      center == At(points, v)
      failed == {[status |-> KS_ERROR, newPos |-> center]}
  IN IF N = 8 /\ kernel = "WinslowAtRegular"
     THEN LET e == extractGeometricStencil(At(oneRing, v), points, 8)
              e2 == extractGeometricStencil(At(oneRing, v), points, 4)
          IN IF ~e.ok \/ ~kernelWinslow(e.stencil).ok \/ ~e2.ok THEN failed
             ELSE KernelMove({kernelWinslow(e.stencil)}, center, e2.stencil,
                             projOnPlanes, sp, smartVariant)
     ELSE LET k2 == IF kernel = "WinslowAtRegular" THEN "AngleBased" ELSE kernel
          IN IF N \in {6, 8, 10} \/ (N > 10 /\ N % 2 = 0)
             THEN LET e == extractGeometricStencil(At(oneRing, v), points, N \div 2)
                  IN IF ~e.ok THEN failed
                     ELSE KernelMove(kernelSmoothingFloatingPoint(k2, center, e.stencil),
                                     center, e.stencil, projOnPlanes, sp, smartVariant)
             ELSE failed

\* a kernel that writes the new position before the projection and the
\* inversion test are known
kernelSmoothingEager(kernel, v, oneRing, points, projOnPlanes, sp, smartVariant) ==
  {[status |-> o.status,
    points |-> SetAt(points, v, VAdd(At(points, v), <<1, 0>>))] :
     o \in KernelOutcomes(kernel, v, oneRing, points, projOnPlanes, sp, smartVariant)}

\* kernelSmoothing: points[v] = newPos is its last statement before
\* return KS_OK; every other return leaves points as it was
kernelSmoothing(kernel, v, oneRing, points, projOnPlanes, sp, smartVariant) ==
  {[status |-> o.status,
    points |-> IF o.status = KS_OK THEN SetAt(points, v, o.newPos) ELSE points] :
     o \in KernelOutcomes(kernel, v, oneRing, points, projOnPlanes, sp, smartVariant)}

(***************************************************************************)
(* smoothElementsWithLocalKernel                                           *)
(***************************************************************************)

\* old2new of buildCondensedStructure: the free vertices first (a vertex
\* listed twice keeps its last index), then the other vertices of the
\* elements in the order they are met
CondensedOrder(elements, freeVertices) ==
  LET flat == [k \in 1 .. 4 * Len(elements) |->
                 elements[((k - 1) \div 4) + 1][((k - 1) % 4) + 1]]
  IN freeVertices
       \o SelectSeq(FirstOccurrences(flat), LAMBDA x : x \notin Range(freeVertices))

CondensedIndex(new2old, mv) ==
  CHOOSE k \in Idx(new2old) :
    At(new2old, k) = mv /\ \A j \in Idx(new2old) : At(new2old, j) = mv => j <= k

\* the first vertex found next to vp on an edge of the adjacent quads, 0 when
\* there is none
StencilStart(adjQuads, vp) ==
  LET hits == {p \in (1 .. Len(adjQuads)) \X (0 .. 3) :
                 vp \in {getEdge(adjQuads[p[1]], p[2])[1], getEdge(adjQuads[p[1]], p[2])[2]}}
  IN IF hits = {} THEN 0
     ELSE LET p == CHOOSE h \in hits :
                     \A g \in hits : h[1] < g[1] \/ (h[1] = g[1] /\ h[2] <= g[2])
              ed == getEdge(adjQuads[p[1]], p[2])
          IN IF ed[1] = vp THEN ed[2] ELSE ed[1]

\* the one ring of free vertex v: the boundary of its adjacent quads, turned
\* to start at an edge neighbour, of even size at least 6
OneRingOf(elements, new2old, v) ==
  LET vp == At(new2old, v)
      v2q == SelectSeq([f \in 1 .. Len(elements) |-> f],
                       LAMBDA f : \E lv \in 1 .. 4 :
                                     CondensedIndex(new2old, elements[f][lv]) = v)
      adjQuads == [k \in 1 .. Len(v2q) |-> elements[v2q[k]]]
      b == buildBoundary([elem |-> elements], v2q)
      bnd == DropRepeatedEnd(b.bnd)
      v0 == StencilStart(adjQuads, vp)
      turned == IF Find(bnd, v0) < Len(bnd) THEN Rotate(bnd, Find(bnd, v0)) ELSE bnd
  IN IF ~b.ok \/ v0 = 0 \/ turned = <<>> \/ turned[1] # v0
          \/ Len(turned) < 6 \/ Len(turned) % 2 # 0
     THEN [ok |-> FALSE, ring |-> <<>>]
     ELSE [ok |-> TRUE, ring |-> [j \in 1 .. Len(turned) |-> CondensedIndex(new2old, turned[j])]]

buildCondensedStructure(elements, freeVertices, xyz) ==
  IF \E f \in 1 .. Len(elements) : Len(elements[f]) # 4
  THEN [ok |-> FALSE, new2old |-> <<>>, oneRings |-> <<>>, points |-> <<>>]
  ELSE LET new2old == CondensedOrder(elements, freeVertices)
           rings == [v \in 1 .. Len(freeVertices) |-> OneRingOf(elements, new2old, v - 1)]
       IN IF \E v \in 1 .. Len(freeVertices) : ~rings[v].ok
          THEN [ok |-> FALSE, new2old |-> <<>>, oneRings |-> <<>>, points |-> <<>>]
          ELSE [ok |-> TRUE, new2old |-> new2old,
                oneRings |-> [v \in 1 .. Len(freeVertices) |-> rings[v].ring],
                points |-> [k \in 1 .. Len(new2old) |-> xyz[new2old[k]]]]

\* localAvgSize[i]: the mean distance from free vertex i to its one ring
LocalAvgSize(oneRings, points) ==
  [i \in 1 .. Len(oneRings) |->
     IF Len(oneRings[i]) > 0
     THEN SeqSum([j \in 1 .. Len(oneRings[i]) |->
                    length(VSub(points[i], At(points, oneRings[i][j])))])
            \div Len(oneRings[i])
     ELSE 0]

\* Inputs of smoothElementsWithLocalKernel
\* distance between two rows of vertices of a smoothing input
SmoothStep == 4
\* largest iterMaxOuterLoop
MaxOuterLoop == 3

\* positions of the MVertex of GridQuads(nx, ny)
GridXYZ(nx, ny) ==
  [mv \in 1 .. ((nx + 1) * (ny + 1)) |->
     <<SmoothStep * ((mv - 1) % (nx + 1)), SmoothStep * ((mv - 1) \div (nx + 1))>>]

\* positions of the MVertex of StarQuads(3, 1): centre 1, spokes 2, 3, 4 and
\* the corners 5, 6, 7 between them
Star3XYZ ==
  <<<<6, 5>>, <<12, 5>>, <<3, 10>>, <<3, 0>>, <<9, 10>>, <<0, 5>>, <<9, 0>>>>

\* a face part to smooth: its elements, its free vertices and the positions
\* of its vertices, a free vertex being at its place, near it, or outside
\* its one ring (an inverted quad)
SmoothInputs ==
  {[elements |-> GridQuads(3, 2), freeVertices |-> <<6, 7>>,
    xyz |-> [GridXYZ(3, 2) EXCEPT ![6] = p6, ![7] = p7]] :
       p6 \in {<<4, 4>>, <<5, 5>>, <<2, 6>>}, p7 \in {<<8, 4>>, <<10, 3>>}}
  \cup {[elements |-> StarQuads(3, 1), freeVertices |-> <<1>>,
         xyz |-> [Star3XYZ EXCEPT ![1] = p1]] : p1 \in {<<6, 5>>, <<7, 6>>, <<10, 9>>}}
  \cup {[elements |-> <<<<1, 2, 6, 5>>, <<2, 3, 6>>>>, freeVertices |-> <<6>>,
         xyz |-> GridXYZ(3, 2)]}

\* global_dx_reduction and local_dx_reduction as fractions <<n, d>>
DxReductions == {<<1, 10>>, <<1, 2>>}

SmoothIdle ==
  /\ quadrangles = <<>>
  /\ singularVertices = {}
  /\ M = EmptyMesh
  /\ ret = <<>>
  /\ query = NoQuery
  /\ cav = EmptyCavity
  /\ G = Gardener(EmptyMesh)
  /\ single = FALSE
  /\ last = NoCall
  /\ run = "fresh"
  /\ patterns = <<>>
  /\ cad = [onWhat |-> <<>>, vAngle |-> <<>>]
  /\ Q = {}

NoKernelCall ==
  [v |-> NO_ID, status |-> KS_OK, center |-> <<0, 0>>, iter |-> 0, running |-> <<>>]

\* the call of smoothElementsWithLocalKernel: gf holds the elements, the free
\* vertices, the positions of the MVertex and the geometry of the face
InitSmooth ==
  /\ SmoothIdle
  /\ \E input \in SmoothInputs, plane \in BOOLEAN :
       gf = [elements |-> input.elements, freeVertices |-> input.freeVertices,
             xyz |-> input.xyz, plane |-> plane, ret |-> "running"]
  /\ heap = [points |-> <<>>, new2old |-> <<>>]
  /\ adj = <<>>
  /\ \E kernel \in Kernels, smartVariant \in BOOLEAN, sp \in BOOLEAN,
        iterMaxOuterLoop \in 0 .. MaxOuterLoop,
        global_dx_reduction \in DxReductions, local_dx_reduction \in DxReductions :
       ctl = [pc |-> "build", kernel |-> kernel, smartVariant |-> smartVariant,
              sp |-> sp, projOnStencil |-> TRUE,
              iterMaxOuterLoop |-> iterMaxOuterLoop,
              global_dx_reduction |-> global_dx_reduction,
              local_dx_reduction |-> local_dx_reduction,
              localAvgSize |-> <<>>, running |-> <<>>,
              iter |-> 0, i |-> 0, count |-> 0, sum_dx |-> 0, sum_dx0 |-> 0,
              passes |-> 0]
  /\ att = NoKernelCall

\* from the entry to the first test of the for loop: the geometry of the
\* face, buildCondensedStructure, localAvgSize, running
BuildCondensed ==
  /\ ctl.pc = "build"
  /\ \E r \in {buildCondensedStructure(gf.elements, gf.freeVertices, gf.xyz)} :
       IF ~r.ok
       THEN /\ gf' = [gf EXCEPT !.ret = "false"]
            /\ ctl' = [ctl EXCEPT !.pc = "done"]
            /\ UNCHANGED <<heap, adj>>
       ELSE /\ heap' = [points |-> r.points, new2old |-> r.new2old]
            /\ adj' = r.oneRings
            /\ ctl' = [ctl EXCEPT !.pc = IF ctl.iterMaxOuterLoop > 0 THEN "sweep" ELSE "write",
                                  !.sp = IF gf.plane THEN FALSE ELSE @,
                                  !.projOnStencil = ~gf.plane,
                                  !.localAvgSize = LocalAvgSize(r.oneRings, r.points),
                                  !.running = [k \in 1 .. Len(gf.freeVertices) |-> TRUE]]
            /\ UNCHANGED gf
  /\ UNCHANGED <<cad, Q, att>>
  /\ UNCHANGED <<heVars, cavVars>>

\* one turn of the loop over the free vertices: nothing for a locked vertex,
\* a call of kernelSmoothing and the locking test for a running one
SmoothVertex ==
  /\ ctl.pc = "sweep"
  /\ ctl.i < Len(gf.freeVertices)
  /\ IF ~At(ctl.running, ctl.i)
     THEN /\ ctl' = [ctl EXCEPT !.i = @ + 1]
          /\ UNCHANGED <<heap, att>>
     ELSE LET center == At(heap.points, ctl.i)
              useStencilProjection ==
                ctl.projOnStencil /\ ctl.iter < ctl.iterMaxOuterLoop - 1
          IN \E k \in kernelSmoothing(ctl.kernel, ctl.i, adj, heap.points,
                                      useStencilProjection, ctl.sp, ctl.smartVariant) :
                LET dx == length(VSub(center, At(k.points, ctl.i)))
                    locks == dx * ctl.local_dx_reduction[2]
                               < ctl.local_dx_reduction[1] * At(ctl.localAvgSize, ctl.i)
                IN /\ heap' = [heap EXCEPT !.points = k.points]
                   /\ att' = [v |-> ctl.i, status |-> k.status, center |-> center,
                              iter |-> ctl.iter, running |-> ctl.running]
                   /\ ctl' = IF k.status = KS_OK
                             THEN [ctl EXCEPT !.i = @ + 1,
                                              !.sum_dx = @ + dx,
                                              !.running = IF locks THEN SetAt(@, ctl.i, FALSE)
                                                          ELSE @,
                                              !.count = IF locks THEN @ ELSE @ + 1]
                             ELSE [ctl EXCEPT !.i = @ + 1,
                                              !.running = SetAt(@, ctl.i, FALSE)]
  /\ UNCHANGED <<gf, cad, adj, Q>>
  /\ UNCHANGED <<heVars, cavVars>>

\* the end of one pass of the outer loop: sum_dx0 after the first pass, the
\* two break tests after the others, then ++iter and the test of the for
EndSweep ==
  /\ ctl.pc = "sweep"
  /\ ctl.i = Len(gf.freeVertices)
  /\ LET stops == /\ ctl.iter # 0
                  /\ \/ ctl.sum_dx * ctl.global_dx_reduction[2]
                          < ctl.global_dx_reduction[1] * ctl.sum_dx0
                     \/ ctl.count = 0
     IN ctl' = [ctl EXCEPT !.passes = @ + 1,
                           !.sum_dx0 = IF ctl.iter = 0 THEN ctl.sum_dx ELSE @,
                           !.iter = IF stops THEN @ ELSE @ + 1,
                           !.i = 0, !.count = 0, !.sum_dx = 0,
                           !.pc = IF stops \/ ctl.iter + 1 >= ctl.iterMaxOuterLoop
                                  THEN "write" ELSE "sweep"]
  /\ UNCHANGED <<gf, heap, cad, adj, Q, att>>
  /\ UNCHANGED <<heVars, cavVars>>

\* new2old[i]->setXYZ(points[i]) for every free vertex, return true
WriteBack ==
  /\ ctl.pc = "write"
  /\ gf' = [gf EXCEPT !.ret = "true",
                      !.xyz = [mv \in DOMAIN gf.xyz |->
                                 IF \E i \in Idx(gf.freeVertices) : At(heap.new2old, i) = mv
                                 THEN At(heap.points,
                                         MaxOf({i \in Idx(gf.freeVertices) :
                                                  At(heap.new2old, i) = mv}))
                                 ELSE gf.xyz[mv]]]
  /\ ctl' = [ctl EXCEPT !.pc = "done"]
  /\ UNCHANGED <<heap, cad, adj, Q, att>>
  /\ UNCHANGED <<heVars, cavVars>>

NextSmooth == BuildCondensed \/ SmoothVertex \/ EndSweep \/ WriteBack

SpecSmooth == InitSmooth /\ [][NextSmooth]_vars

(***************************************************************************)
(* tryLocalSmoothing                                                       *)
(***************************************************************************)

\* the edges of elements of any number of vertices, element by element
RECURSIVE PolyEdges(_)
PolyEdges(tuples) ==
  IF tuples = <<>> THEN <<>>
  ELSE [j \in 1 .. Len(Head(tuples)) |->
          <<Head(tuples)[j], Head(tuples)[(j % Len(Head(tuples))) + 1]>>]
         \o PolyEdges(Tail(tuples))

\* verticesStrictlyInside: the vertices of the elements that are not on the
\* boundary, or a failure
verticesStrictlyInside(elements, bnd) ==
  {[ok |-> TRUE, inside |-> SortSet(VerticesOf(elements) \ Range(bnd))],
   [ok |-> FALSE, inside |-> <<>>]}

\* computeQualitySICN behind quadQualityStats: the smallest quality and the
\* mean quality of the elements, DBL_MAX and 0 when there is none

quadQualityStats(quality) ==
  [min |-> IF quality = <<>> THEN DBL_MAX ELSE MinOf(Range(quality)),
   avg |-> IF quality = <<>> THEN 0 ELSE SeqSum(quality) \div Len(quality)]

\* the smoothers of LocalSmoother
LocalSmoothers ==
  {"LS_MesquiteUntangler", "LS_MesquiteShapeImprovement",
   "LS_MesquitePaverMinEdgeLengthWrapper", "LS_Winslow", "LS_Laplacian",
   "LS_SmartLaplacian"}

\* Inputs of tryLocalSmoothing
\* the values of minSICNShapeMeasure, in tenths
QualityLevels == {0 - 2, 2, 4, 8}

\* the qualities of n elements: one element at most below the others
QualityProfiles(n) ==
  {[k \in 1 .. n |-> IF k = 1 THEN p[1] ELSE p[2]] :
     p \in {x \in QualityLevels \X QualityLevels : x[1] <= x[2]}}

\* factorOnQualityMin and factorOnQualityAvg as fractions <<n, d>>
QualityFactors == {<<1, 1>>, <<1, 2>>, <<3, 2>>}

\* the values of minimumQuality, in tenths
MinimumQualities == {0, 3}

\* a cavity to smooth: three quads around a free vertex, a quad and a
\* triangle, two quads that meet at one vertex only
LocalSmoothingInputs ==
  {[elements |-> StarQuads(3, 1), xyz |-> Star3XYZ],
   [elements |-> <<<<1, 2, 5, 3>>, <<1, 3, 6>>>>, xyz |-> Star3XYZ],
   [elements |-> <<<<1, 2, 5, 3>>, <<1, 4, 7, 6>>>>, xyz |-> Star3XYZ]}

\* what meshWinslow2d or Mesquite leaves behind: every free vertex moved or
\* not, and the qualities of the elements at the new positions
SmootherOutcomes(xyz, freeVertices, n) ==
  {[xyz |-> [mv \in DOMAIN xyz |->
               IF mv \in Range(freeVertices) THEN VAdd(xyz[mv], d) ELSE xyz[mv]],
    quality |-> q] : d \in {<<0, 0>>, <<1, 0>>}, q \in QualityProfiles(n)}

\* the call of tryLocalSmoothing: gf holds the elements, the positions of
\* the MVertex and the quality of every element at these positions
InitLocalSmoothing ==
  /\ SmoothIdle
  /\ \E input \in LocalSmoothingInputs :
       \E quality \in QualityProfiles(Len(input.elements)) :
          gf = [elements |-> input.elements, xyz |-> input.xyz,
                quality |-> quality, quality0 |-> quality, ret |-> "running"]
  /\ heap = [points |-> <<>>, new2old |-> <<>>]
  /\ adj = <<>>
  /\ \E smoother \in LocalSmoothers, minimumQuality \in MinimumQualities,
        factorOnQualityMin \in QualityFactors, factorOnQualityAvg \in QualityFactors :
       ctl = [pc |-> "entry", smoother |-> smoother, minimumQuality |-> minimumQuality,
              factorOnQualityMin |-> factorOnQualityMin,
              factorOnQualityAvg |-> factorOnQualityAvg,
              freeVertices |-> <<>>, before |-> <<>>, minSICNb |-> DBL_MAX,
              avgSICNb |-> 0, minSICNa |-> DBL_MAX, avgSICNa |-> 0, keep |-> TRUE,
              smoothed |-> FALSE]
  /\ att = NoKernelCall

\* from the entry to the call of the smoother: the boundary, the vertices
\* inside, their positions saved, the test that every element is a quad,
\* the statistics before, the choice of the smoother
EnterLocalSmoothing ==
  /\ ctl.pc = "entry"
  /\ \E b \in {BoundaryFromEdges(UnpairedEdges(PolyEdges(gf.elements)))} :
       IF ~b.ok
       THEN /\ gf' = [gf EXCEPT !.ret = "false"]
            /\ ctl' = [ctl EXCEPT !.pc = "done"]
       ELSE \E inside \in verticesStrictlyInside(gf.elements, b.bnd) :
               IF ~inside.ok
               THEN \* return -1 from a function that returns bool
                    /\ gf' = [gf EXCEPT !.ret = "true"]
                    /\ ctl' = [ctl EXCEPT !.pc = "done"]
               ELSE LET saved == [ctl EXCEPT
                                    !.freeVertices = inside.inside,
                                    !.before = [v \in 1 .. Len(inside.inside) |->
                                                  gf.xyz[inside.inside[v]]]]
                        stats == quadQualityStats(gf.quality)
                    IN IF \E k \in 1 .. Len(gf.elements) : Len(gf.elements[k]) # 4
                       THEN /\ gf' = [gf EXCEPT !.ret = "false"]
                            /\ ctl' = [saved EXCEPT !.pc = "done"]
                       ELSE IF ctl.smoother \in {"LS_Laplacian", "LS_SmartLaplacian"}
                            THEN /\ gf' = [gf EXCEPT !.ret = "false"]
                                 /\ ctl' = [saved EXCEPT !.pc = "done",
                                                         !.minSICNb = stats.min,
                                                         !.avgSICNb = stats.avg]
                            ELSE /\ UNCHANGED gf
                                 /\ ctl' = [saved EXCEPT !.pc = "smooth",
                                                         !.minSICNb = stats.min,
                                                         !.avgSICNb = stats.avg]
  /\ UNCHANGED <<heap, cad, adj, Q, att>>
  /\ UNCHANGED <<heVars, cavVars>>

\* meshWinslow2d, or optimizeQuadCavity, which returns 0 and moves nothing
\* when there is no free vertex
RunSmoother ==
  /\ ctl.pc = "smooth"
  /\ \E o \in SmootherOutcomes(gf.xyz, ctl.freeVertices, Len(gf.elements)) :
       /\ ctl.smoother # "LS_Winslow" /\ ctl.freeVertices = <<>>
            => o.xyz = gf.xyz /\ o.quality = gf.quality
       /\ o.xyz = gf.xyz => o.quality = gf.quality
       /\ gf' = [gf EXCEPT !.xyz = o.xyz, !.quality = o.quality]
  /\ ctl' = [ctl EXCEPT !.pc = "decide", !.smoothed = TRUE]
  /\ UNCHANGED <<heap, cad, adj, Q, att>>
  /\ UNCHANGED <<heVars, cavVars>>

\* the three tests on keep: the second one compares avgSICNa with
\* factorOnQualityAvg * avgSICNa
KeepSmoothing(c, stats) ==
  /\ c.keep
  /\ ~(stats.min * c.factorOnQualityMin[2] < c.factorOnQualityMin[1] * c.minSICNb)
  /\ ~(stats.avg * c.factorOnQualityAvg[2] < c.factorOnQualityAvg[1] * stats.avg)
  /\ ~(stats.min < c.minimumQuality /\ stats.min < c.minSICNb)

\* from the return of the smoother to the end: the statistics after, keep,
\* the roll back of every free vertex when keep is false
KeepOrRollBack ==
  /\ ctl.pc = "decide"
  /\ \E stats \in {quadQualityStats(gf.quality)} :
       \E keep \in {KeepSmoothing(ctl, stats)} :
          /\ ctl' = [ctl EXCEPT !.pc = "done", !.keep = keep,
                                !.minSICNa = stats.min, !.avgSICNa = stats.avg]
          /\ gf' = IF keep THEN [gf EXCEPT !.ret = "true"]
                   ELSE [gf EXCEPT
                           !.ret = "false",
                           !.xyz = [mv \in DOMAIN gf.xyz |->
                                      IF mv \in Range(ctl.freeVertices)
                                      THEN ctl.before[Find(ctl.freeVertices, mv) + 1]
                                      ELSE gf.xyz[mv]],
                           !.quality = gf.quality0]
  /\ UNCHANGED <<heap, cad, adj, Q, att>>
  /\ UNCHANGED <<heVars, cavVars>>

NextLocalSmoothing == EnterLocalSmoothing \/ RunSmoother \/ KeepOrRollBack

SpecLocalSmoothing == InitLocalSmoothing /\ [][NextLocalSmoothing]_vars

(***************************************************************************)
(* Properties of the half-edge mesh                                        *)
(***************************************************************************)

\* the edge (unordered pair of MVertex) that half-edge h of the input stands for
EdgeOfHe(h) ==
  LET q == quadrangles[(h \div 4) + 1]
      k == h % 4
  IN {q[k + 1], q[((k + 1) % 4) + 1]}

AllHes == 0 .. (4 * Len(quadrangles) - 1)
EdgeUsers(e) == {h \in AllHes : EdgeOfHe(h) = e}
NonManifoldInput == \E h \in AllHes : Cardinality(EdgeUsers(EdgeOfHe(h))) > 2

\* number of quads of the input that use MVertex mv
NbIncidentQuads(mv) ==
  Cardinality({f \in 1 .. Len(quadrangles) : mv \in Range(quadrangles[f])})

\* C1: on a manifold, consistently oriented quad set (the structured patches,
\* the 3x3 grid among them) vertexFaceValence(v) returns the number of quads
\* incident to v, and onBoundary exactly when v is an endpoint of a half-edge
\* that has no opposite.
C1_ValenceCorrect ==
  (query.op = "vertexFaceValence" /\ quadrangles \in Grids) =>
    /\ query.res.valence = NbIncidentQuads(At(M.vertices, query.v).ptr)
    /\ query.res.onBoundary =
         (\E he \in Idx(M.hedges) :
            /\ opposite(M, he) = NO_ID
            /\ query.v \in {vertex(M, he, 0), vertex(M, he, 1)})

\* C3: in a structure built with status 0, next and prev are inverse, four
\* steps of next stay in the face and come back, and opposite is an involution.
C3_HalfEdgeConsistency ==
  ret = <<0>> =>
    \A he \in Idx(M.hedges) :
      /\ next(M, prev(M, he)) = he
      /\ prev(M, next(M, he)) = he
      /\ next(M, next(M, next(M, next(M, he)))) = he
      /\ \A x \in {next(M, he), next(M, next(M, he)), next(M, next(M, next(M, he)))} :
           At(M.hedges, x).face = At(M.hedges, he).face
      /\ opposite(M, he) # NO_ID => opposite(M, opposite(M, he)) = he

C3_Witness ==
  /\ ret = <<0>>
  /\ Len(M.faces) >= 4
  /\ \E he \in Idx(M.hedges) : opposite(M, he) # NO_ID
  /\ \E he \in Idx(M.hedges) : opposite(M, he) = NO_ID

\* C4: the status is a failure exactly when some edge is used by more than two
\* quads; on success the half-edges of an edge used twice are each other's
\* opposite and the half-edge of an edge used once has none.
C4_NonManifoldIffFailure ==
  ret # <<>> =>
    /\ (ret # <<0>>) <=> NonManifoldInput
    /\ ret = <<0>> =>
         \A he \in Idx(M.hedges) :
           LET users == EdgeUsers(EdgeOfHe(he))
           IN IF Cardinality(users) = 2
              THEN opposite(M, he) \in users \ {he}
              ELSE opposite(M, he) = NO_ID

C4_Witness ==
  /\ ret = <<-1>>
  /\ NonManifoldInput
  /\ Len(quadrangles) = 3

(***************************************************************************)
(* Properties of cavities                                                  *)
(***************************************************************************)

\* every face with a corner at v is in quads: v is strictly inside quads
AllFacesIn(v, quads) ==
  \A he \in Idx(M.hedges) :
    At(M.hedges, he).vertex = v => At(M.hedges, he).face \in quads

\* the flagged vertices that have a face in quads
FlaggedTouched(quads) ==
  {v \in Idx(M.vertices) :
     /\ IsSing(M, v)
     /\ \E he \in Idx(M.hedges) :
          At(M.hedges, he).vertex = v /\ At(M.hedges, he).face \in quads}

\* the half-edges of S that start where he ends
SuccessorsIn(S, he) == {h2 \in S : vertex(M, h2, 0) = vertex(M, he, 1)}

\* the half-edges met from he by going to the successor, for as long as the
\* successor is unique and new
RECURSIVE FollowFrom(_, _, _)
FollowFrom(S, he, seen) ==
  IF he \in seen \/ Cardinality(SuccessorsIn(S, he)) # 1 THEN seen \cup {he}
  ELSE FollowFrom(S, CHOOSE h2 \in SuccessorsIn(S, he) : TRUE, seen \cup {he})

\* the half-edges of S form exactly one closed loop
OneClosedLoop(S) ==
  /\ S # {}
  /\ \A he \in S : Cardinality(SuccessorsIn(S, he)) = 1
  /\ \A he \in S : FollowFrom(S, he, {}) = S

\* C2: from a cavity initialised with a single quad, after any sequence of
\* growByFlip calls that returned true, hes is one closed loop (consecutive
\* entries chained, the last back to the first, no entry twice) and is exactly
\* the boundary of quads.
C2_HesIsBoundaryLoop ==
  (single /\ run = "ok" /\ last.op \in {"init", "growByFlip"}) =>
    LoopBoundsQuads(cav)

C2_Witness ==
  /\ single
  /\ run = "ok"
  /\ last.op = "growByFlip"
  /\ last.ret
  /\ last.why = "minus2"
  /\ Cardinality(cav.quads) >= 4

C7_RejectedFlipChangesNothing ==
  [][(last'.op = "growByFlip" /\ ~last'.ret /\ last'.config # "q1q2q3") =>
       (cav'.hes = cav.hes /\ cav'.quads = cav.quads)]_vars

C7_Witness ==
  /\ last.op = "growByFlip"
  /\ ~last.ret
  /\ last.config = "q1"
  /\ last.why = "singularity"
  /\ Len(cav.hes) >= 4

\* C8: init returns false whenever the half-edges left after the removal of
\* the interior ones do not form exactly one closed loop (two components, a
\* ring around a hole, two quads touching at a vertex), and when it returns
\* true hes holds every remaining half-edge exactly once.
C8_InitAcceptsOneLoopOnly ==
  (last.op = "init" /\ run # "diverges") =>
    LET remaining == BoundaryHes(Range(last.quadsInit))
    IN /\ ~OneClosedLoop(remaining) => ~last.ret
       /\ last.ret => /\ Range(cav.hes) = remaining
                      /\ Len(cav.hes) = Cardinality(remaining)

\* C10: growIsotropic(n) makes at most n flips, removes no quad and adds at
\* most n, and leaves hes one closed loop that bounds quads when it was one
\* before.
C10_IsotropicKeepsLoop ==
  last.op = "growIsotropic" =>
    /\ last.nb <= last.n
    /\ last.preQuads \subseteq cav.quads
    /\ Cardinality(cav.quads) <= Cardinality(last.preQuads) + last.n
    /\ last.preLoop => LoopBoundsQuads(cav)

(***************************************************************************)
(* Properties of the repair loop                                           *)
(***************************************************************************)

\* C6: an accepted repair that is not a duet swap (vertex on the surface, 4
\* boundary vertices, 2 old quads, a number of new elements other than 2) has
\* its new elements in the face, and their irregularity energy is strictly
\* below that of the quads they replaced, for the same ideal valences and
\* allowed ranges.
C6_AcceptedRepairLowersEnergy ==
  (att.kind = "accepted"
   /\ ~(vertexSupport(cad, att.v) = SURFACE /\ Len(att.bnd) = 4 /\ Len(att.quads) = 2
        /\ Len(att.newElements) # 2)) =>
    /\ Range(att.newIds) \subseteq Range(gf.quadrangles)
    /\ irregularityEnergyOfCavity(att.bnd, att.bndIdealValence, att.bndAllowedValenceRange,
                                  att.newVertices, att.newElements)
         < irregularityEnergyOfCavity(att.bnd, att.bndIdealValence,
                                      att.bndAllowedValenceRange, att.inside, att.oldElements)

C6_Witness ==
  /\ att.kind = "accepted"
  /\ ~att.duet
  /\ att.inside # <<>>
  /\ att.energy_after < att.energy_before
  /\ Range(att.newIds) \subseteq Range(gf.quadrangles)

\* C9: an iteration whose candidate is not accepted (no matching template, or
\* an energy that is not strictly lower) leaves the quad list and the vertex
\* list of the face and the adjacency map as they were, and no candidate
\* object stays allocated.
C9_RejectedAttemptChangesNothing ==
  [][(Q' # Q /\ att'.kind \in {"nomatch", "rejected"}) =>
       (gf' = gf /\ adj' = adj /\ heap' = heap)]_vars

C9_Witness ==
  /\ att.kind = "rejected"
  /\ att.newVertices # <<>>
  /\ att.energy_after >= att.energy_before
  /\ Range(att.newIds) \cap DOMAIN heap.elem = {}

\* C11: in every iteration that builds a cavity signature, a boundary vertex
\* with no quad outside the cavity gets the range {ideal, ideal}, its ideal
\* being the angle-derived value in 1 .. 4 on a corner, 2 on a curve and 4 on
\* the surface; a corner of ideal valence 1 gets {1, 1}.
C11_NoExteriorMeansExactRange ==
  [][(ctl'.iter # ctl.iter /\ att'.kind \in {"nomatch", "rejected", "accepted"}) =>
       \A i \in 1 .. Len(att'.bnd) :
         Range(adj[att'.bnd[i]]) \subseteq Range(att'.quads) =>
           LET bv == att'.bnd[i]
               ideal == IF bv \in DOMAIN cad.onWhat /\ cad.onWhat[bv] = CORNER
                        THEN (IF cad.vAngle[bv] < 1 THEN 1
                              ELSE IF cad.vAngle[bv] > 4 THEN 4 ELSE cad.vAngle[bv])
                        ELSE IF bv \in DOMAIN cad.onWhat /\ cad.onWhat[bv] = CURVE THEN 2
                        ELSE 4
           IN /\ att'.bndAllowedValenceRange[i] = <<ideal, ideal>>
              /\ att'.bndIdealValence[i] = ideal]_vars

C11_Witness ==
  /\ att.kind = "accepted"
  /\ \E i \in 1 .. Len(att.bnd) :
       /\ vertexSupport(cad, att.bnd[i]) = CORNER
       /\ cad.vAngle[att.bnd[i]] = 0
       /\ att.bndAllowedValenceRange[i] = <<1, 1>>
       /\ att.bndIdealValence[i] = 1
  /\ \E i \in 1 .. Len(att.bnd) :
       /\ vertexSupport(cad, att.bnd[i]) = CORNER
       /\ att.bndAllowedValenceRange[i] = <<2, 2>>

\* C13: once the adjacency map is built, at every pop and after every
\* accepted repair, each entry of the map belongs to a live vertex and lists,
\* each once, exactly the quads of the face that contain the vertex (live
\* quads only), and every vertex of a quad of the face has an entry.
C13_AdjacencyMatchesFace ==
  ctl.pc \in {"seed", "loop", "done"} =>
    /\ \A v \in DOMAIN adj :
         /\ v \in heap.vert
         /\ \A k \in 1 .. Len(adj[v]) :
              /\ adj[v][k] \in DOMAIN heap.elem
              /\ adj[v][k] \in Range(gf.quadrangles)
              /\ v \in Range(heap.elem[adj[v][k]])
              /\ \A j \in 1 .. (k - 1) : adj[v][j] # adj[v][k]
    /\ \A k \in 1 .. Len(gf.quadrangles) :
         /\ gf.quadrangles[k] \in DOMAIN heap.elem
         /\ \A v \in Range(heap.elem[gf.quadrangles[k]]) :
              v \in DOMAIN adj /\ gf.quadrangles[k] \in Range(adj[v])

C13_Witness ==
  /\ att.kind = "accepted"
  /\ att.inside # <<>>
  /\ att.newVertices = <<>>
  /\ Range(att.inside) \cap DOMAIN adj = {}
  /\ \A v \in Range(att.bnd) : Range(adj[v]) \cap Range(att.newIds) # {}

\* C16 (as stated): of two boundary vertices of one cavity that have the same
\* class and each at least one quad outside the cavity, the one with more
\* quads outside gets a range at least as wide.
C16_MoreExteriorWiderRange ==
  [][(ctl'.iter # ctl.iter /\ att'.kind \in {"nomatch", "rejected", "accepted"}) =>
       \A i, j \in 1 .. Len(att'.bnd) :
         LET exterior(k) == Cardinality(Range(adj[att'.bnd[k]]) \ Range(att'.quads))
             width(k) == att'.bndAllowedValenceRange[k][2] - att'.bndAllowedValenceRange[k][1]
         IN (/\ vertexSupport(cad, att'.bnd[i]) = vertexSupport(cad, att'.bnd[j])
             /\ exterior(j) >= 1
             /\ exterior(i) > exterior(j)) => width(i) >= width(j)]_vars

\* C16 (amended): of two such vertices the one with more quads outside gets a
\* range at most as wide, and both ranges start at 1.
C16_MoreExteriorNarrowerRange ==
  [][(ctl'.iter # ctl.iter /\ att'.kind \in {"nomatch", "rejected", "accepted"}) =>
       \A i, j \in 1 .. Len(att'.bnd) :
         LET exterior(k) == Cardinality(Range(adj[att'.bnd[k]]) \ Range(att'.quads))
             width(k) == att'.bndAllowedValenceRange[k][2] - att'.bndAllowedValenceRange[k][1]
         IN (/\ vertexSupport(cad, att'.bnd[i]) = vertexSupport(cad, att'.bnd[j])
             /\ exterior(j) >= 1
             /\ exterior(i) > exterior(j)) =>
              /\ width(i) <= width(j)
              /\ att'.bndAllowedValenceRange[i][1] = 1
              /\ att'.bndAllowedValenceRange[j][1] = 1]_vars

C16_Witness ==
  /\ att.kind \in {"nomatch", "rejected", "accepted"}
  /\ \E i, j \in 1 .. Len(att.bnd) :
       /\ vertexSupport(cad, att.bnd[i]) = SURFACE
       /\ vertexSupport(cad, att.bnd[j]) = SURFACE
       /\ att.bndIdealValence[i] = 2
       /\ att.bndIdealValence[j] = 3
       /\ att.bndAllowedValenceRange[i] = <<1, 3>>
       /\ att.bndAllowedValenceRange[j] = <<1, 4>>

C18_DeletedVertexNeverRead == ~att.dangling

\* C19: a pass ends only when its queue is empty and no repair was accepted
\* since the queue was last seeded; when the queue runs empty after such a
\* repair it is seeded again.
C19_PassEndsOnlyWithoutProgress ==
  [][(ctl.pc = "loop" /\ ctl'.pc \in {"seed", "done"}) => ~ctl.sinceSeed]_vars

(***************************************************************************)
(* Further properties of cavities and of the Gardener                      *)
(***************************************************************************)

\* C15: a closing-hole flip (q1, q2 and q3 inside) made with
\* rejectNewSingularities = true on a quad that has a flagged vertex returns
\* false and leaves hes and quads as they were.  The candidate is a face
\* outside the cavity whose four neighbours are inside; the property is
\* required when every such face has a flagged vertex.
C15_ClosingHoleRejectsSingularity ==
  [][(/\ last'.op = "growByFlip"
      /\ last'.config = "q1q2q3"
      /\ last'.reject
      /\ LET holes == {f \in Idx(M.faces) \ cav.quads :
                         \A he \in Idx(M.hedges) :
                           At(M.hedges, he).face = f =>
                             /\ opposite(M, he) # NO_ID
                             /\ At(M.hedges, opposite(M, he)).face \in cav.quads}
         IN /\ holes # {}
            /\ \A f \in holes :
                 \E he \in Idx(M.hedges) :
                   At(M.hedges, he).face = f /\ IsSing(M, At(M.hedges, he).vertex)) =>
       (~last'.ret /\ cav'.hes = cav.hes /\ cav'.quads = cav.quads)]_vars

\* C12: growMaximal returns true only if a snapshot was taken during the
\* call and it is not the case that the grown cavity covers every face of
\* the mesh with as many irregular vertices as the target number of sides;
\* when it returns true the caller's cavity is the last snapshot, its sides
\* are numbered 0 .. cavityTargetNbOfSides - 1 and its side array is as long
\* as hes; when no snapshot was taken it returns false.
C12_GrowMaximalReturnsSnapshot ==
  (last.op = "growMaximal" /\ last.status = "ok") =>
     /\ last.ret =>
          /\ last.snaps # <<>>
          /\ ~(/\ Cardinality(last.grown.quads) = Len(M.faces)
               /\ G.lastNbIrregular = last.target)
          /\ cav = last.snaps[Len(last.snaps)]
          /\ Range(cav.side) = 0 .. (last.target - 1)
          /\ Len(cav.side) = Len(cav.hes)
     /\ last.snaps = <<>> => ~last.ret

\* growMaximal returned true after it had grown the cavity past its last
\* snapshot
C12_Witness ==
  /\ last.op = "growMaximal"
  /\ last.status = "ok"
  /\ last.ret
  /\ last.snaps # <<>>
  /\ last.grown.quads # cav.quads
  /\ cav.quads # last.given.quads

\* C20: after setCavity(c), growMaximal of a Gardener that has grown other
\* cavities takes the same snapshots, returns the same result and leaves the
\* same cavity as growMaximal of a Gardener constructed for c.
C20_ReusedGardenerAsFresh ==
  (last.op = "growMaximal" /\ last.status = "ok") =>
     last.fresh = [ret |-> last.ret, cav |-> cav, snaps |-> last.snaps,
                   status |-> last.status]

(***************************************************************************)
(* Properties of the parallel loop over the faces                          *)
(***************************************************************************)

\* C14: a step of the thread of face f leaves the quads and the vertex list
\* of every other face as they were, and leaves every corner and curve that
\* does not belong to f alone as it was: its list of mesh vertices and the
\* vertices in that list.
C14_ThreadTouchesOwnFaceOnly ==
  [][\A f \in ParFaces :
       ctl'[f] # ctl[f] =>
         /\ \A g \in ParFaces \ {f} :
              /\ gf'[g] = gf[g]
              /\ \A q \in Range(gf[g].quadrangles) :
                   q \in DOMAIN heap'.elem /\ heap'.elem[q] = heap.elem[q]
         /\ \A en \in DOMAIN cad.ents :
              cad.ents[en].faces # {f} =>
                /\ cad'.ents[en] = cad.ents[en]
                /\ (Range(cad.ents[en].mesh_vertices) \cap heap.vert) \subseteq heap'.vert]_vars

(***************************************************************************)
(* Properties of the candidates, the target and the counters of a Gardener *)
(***************************************************************************)

\* C21: the half-edges returned by getFlipHalfEdgeCandidates for the cavity
\* just given to the Gardener lie on the cavity boundary and have an
\* opposite, and no returned half-edge starts or ends at a limit vertex (a
\* flagged vertex on the cavity boundary, or an irregular vertex of the face
\* boundary of valence above 2 on a CAD corner).
C21_CandidatesAvoidLimits ==
  last.op = "setCavity" =>
     \A r \in {getFlipHalfEdgeCandidates(M, G, cav, cad)} :
        r.ok =>
          /\ \A he \in Range(r.candidates) :
                he \in Range(cav.hes) /\ opposite(M, he) # NO_ID
          /\ \A bs \in FlipLimits(M, G, cad) :
                \A he \in Range(cav.hes) :
                   (vertex(M, he, 0) = bs \/ vertex(M, he, 1) = bs)
                      => he \notin Range(r.candidates)

\* C22: when the seed given to setCavity has a number of faces other than 1,
\* 3, 4 and 5, the target is 0 and every convex cavity of growMaximal that
\* touches more irregular vertices than the last snapshot passes the test on
\* its number of sides, whatever that number is.
C22_TargetZeroAcceptsAnySides ==
  (/\ last.op = "growMaximal"
   /\ last.status = "ok"
   /\ Cardinality(last.given.quads) \notin {1, 3, 4, 5}) =>
     /\ last.target = 0
     /\ \A k \in 1 .. Len(last.tests) : last.tests[k].passed

\* C25: when setCavity or growMaximal returns, valenceInCavity[v] is, for
\* every vertex v, the number of quads of the caller's cavity that use v, and
\* sings, singsBdr and irregular hold only vertices that a quad of the cavity
\* uses.
C25_CountersDescribeCavity ==
  (last.op \in {"setCavity", "growMaximal"} /\ run = "ok") =>
     /\ \A v \in Idx(M.vertices) :
          G.valenceInCavity[v] = valenceInsideQuads(M, cav.quads, v)
     /\ \A v \in G.sings \cup G.singsBdr \cup G.irregular :
          valenceInsideQuads(M, cav.quads, v) > 0

(***************************************************************************)
(* Properties of orderedHalfEdgesFromStack                                 *)
(***************************************************************************)

\* C24: orderedHalfEdgesFromStack returns for every stack, also when several
\* loops of the stack touch at a vertex: it returns false, or it returns true
\* with an ordered list no longer than the stack.
C24_OrderedWalkTerminates ==
  last.op = "orderedHalfEdgesFromStack" =>
     /\ run # "diverges"
     /\ last.ret => Len(cav.hes) <= Len(last.hes_stack)

\* C27: growMaximal returns: it does not run for ever, every turn of its while
\* loop after the first follows a turn that flipped a candidate, every
\* flipped candidate left more quads in the cavity than before, and the
\* candidates flipped are no more than the quads the cavity gained, which
\* are quads of the mesh.
C27_GrowthBoundedByFaces ==
  last.op = "growMaximal" =>
     /\ last.status # "diverges"
     /\ last.turns <= last.flipped + 1
     /\ last.grew
     /\ last.flipped <= Cardinality(last.grown.quads) - Cardinality(last.given.quads)
     /\ last.grown.quads \subseteq Idx(M.faces)

\* growMaximal returned after three turns or more with every face of the mesh
\* in the cavity
C27_Witness ==
  /\ last.op = "growMaximal"
  /\ last.turns >= 3
  /\ last.flipped >= 2
  /\ last.grown.quads = Idx(M.faces)


(***************************************************************************)
(* Properties of the opposite links                                        *)
(***************************************************************************)

(* C29: in a structure built with status 0, whatever the quad list, the     *)
(* opposite of a half-edge starts at the vertex where the half-edge ends,   *)
(* ends at the vertex where it starts, and belongs to another face.         *)
C29_OppositeIsReversed ==
  ret = <<0>> =>
    \A he \in Idx(M.hedges) :
      opposite(M, he) # NO_ID =>
        /\ vertex(M, opposite(M, he), 0) = vertex(M, he, 1)
        /\ vertex(M, opposite(M, he), 1) = vertex(M, he, 0)
        /\ At(M.hedges, opposite(M, he)).face # At(M.hedges, he).face

(***************************************************************************)
(* Termination of the passes of remeshSmallDefects                         *)
(***************************************************************************)

(* C28: every pass of remeshSmallDefects ends: a pass whose loop is running *)
(* reaches an empty queue, whatever the pattern matcher returns.            *)
C28_EveryPassEnds == (ctl.pc = "loop") ~> (Q = {})

(***************************************************************************)
(* Properties of smoothElementsWithLocalKernel                             *)
(***************************************************************************)

\* C23: in smoothElementsWithLocalKernel a locked free vertex stays locked
\* and keeps its position in every later step, a call of kernelSmoothing
\* that does not return KS_OK leaves the vertex where it was, the outer loop
\* makes at most iterMaxOuterLoop passes, and the positions written back are
\* the ones the loop ended with
C23_LockedVerticesStay ==
  /\ [](att.v # NO_ID /\ att.status # KS_OK
          => At(heap.points, att.v) = att.center /\ ~At(ctl.running, att.v))
  /\ [](ctl.passes <= ctl.iterMaxOuterLoop)
  /\ [](ctl.pc = "done" /\ gf.ret = "true"
          => \A i \in Idx(gf.freeVertices) :
                gf.xyz[At(heap.new2old, i)] = At(heap.points, i))
  /\ [][\A i \in Idx(ctl.running) :
          ~At(ctl.running, i)
             => ~At(ctl'.running, i) /\ At(heap'.points, i) = At(heap.points, i)]_vars

\* C23 witness: in a pass after the first, the kernel call on free vertex 0
\* is rejected or fails, while free vertex 1, moved by an earlier call, had
\* been locked in an earlier pass
C23_Witness ==
  /\ att.v = 0
  /\ att.iter >= 1
  /\ att.status # KS_OK
  /\ Len(att.running) = 2
  /\ ~At(att.running, 1)
  /\ At(heap.points, 1) # gf.xyz[At(heap.new2old, 1)]


(***************************************************************************)
(* Properties of tryLocalSmoothing                                         *)
(***************************************************************************)

\* C30: tryLocalSmoothing returns true only if the minimum quality after is
\* at least factorOnQualityMin times the minimum before and the average
\* quality after is at least factorOnQualityAvg times the average before;
\* when it returns false after the smoother ran, every free vertex is at the
\* position it had before the call
C30_KeptOnlyIfNotWorse ==
  ctl.pc = "done" =>
    LET b == quadQualityStats(gf.quality0)
        a == quadQualityStats(gf.quality)
    IN /\ gf.ret = "true"
            => /\ a.min * ctl.factorOnQualityMin[2] >= ctl.factorOnQualityMin[1] * b.min
               /\ a.avg * ctl.factorOnQualityAvg[2] >= ctl.factorOnQualityAvg[1] * b.avg
       /\ gf.ret = "false" /\ ctl.smoothed
            => \A v \in 1 .. Len(ctl.freeVertices) :
                  gf.xyz[ctl.freeVertices[v]] = ctl.before[v]

(***************************************************************************)
(* Properties of remeshCavitiesAroundSingularities                         *)
(***************************************************************************)

(* C26: remeshCavityWithQuadPatterns returns true only when the quads of    *)
(* the cavity were replaced in the face, so that the seed vertex leaves     *)
(* singularVertices and inProgress is set only after the quads of the face  *)
(* were changed by the call.                                                *)
C26_SuccessMeansQuadsReplaced ==
  last.op = "remeshCavityWithQuadPatterns" =>
     /\ last.ret => gf.quadrangles # last.gfBefore.quadrangles
     /\ (singularVertices # last.singularBefore \/ ctl.inProgress # last.inProgressBefore)
           => gf.quadrangles # last.gfBefore.quadrangles

====
